---- MODULE Spec2Model ----
(***************************************************************************)
(* Ledger state machine of bit2coin: Blockchain (src/blockchain/           *)
(* blockchain.py), Transaction (src/blockchain/transaction.py), Block      *)
(* (src/blockchain/block.py) and the reward schedules of GenesisConfig     *)
(* (src/blockchain/genesis_config.py) and ProofOfStake.                    *)
(*                                                                         *)
(* Amounts are Python Decimals.  Ledger amounts are kept as integers in    *)
(* units of 10^-6 coin (the finest unit the code uses, SIZE_FEE_RATE).     *)
(* Block rewards are quotients and are kept as decimal numbers with the    *)
(* precision of Python's default decimal context.                          *)
(***************************************************************************)
EXTENDS Integers, Sequences, FiniteSets, TLC

\* ------------------------------------------------------------------------
\* Program constants
\* ------------------------------------------------------------------------
\* one coin in ledger units; the unit is SIZE_FEE_RATE = Decimal('0.000001')
Coin == 1000000
SIZE_FEE_RATE == 1
BASE_FEE == 100
MAX_SIZE == 100000
MAX_FUTURE_TIME == 7200
MAX_PAST_TIME == 86400
VERSION == 1
HALVING_INTERVAL == 210000
MINIMUM_STAKE == 100 * Coin
\* Config.MAX_MEMPOOL_SIZE, 10000 in utils/config.py, scaled down so that a
\* full mempool is reached
MAX_MEMPOOL_SIZE == 3
MAX_BLOCK_SIZE == 1000000
\* significant digits of Python's default decimal context
DECIMAL_PREC == 28

\* ------------------------------------------------------------------------
\* decimal.Decimal: digits * 10^exp, digits a sequence of decimal digits,
\* most significant first, without leading or trailing zero; zero is <<>>.
\* ------------------------------------------------------------------------
DecZero == [digits |-> <<>>, exp |-> 0]

FirstNonZero(d) ==
    IF \A i \in 1..Len(d) : d[i] = 0 THEN 0
    ELSE CHOOSE i \in 1..Len(d) : d[i] # 0 /\ \A j \in 1..(i - 1) : d[j] = 0

LastNonZero(d) ==
    IF \A i \in 1..Len(d) : d[i] = 0 THEN 0
    ELSE CHOOSE i \in 1..Len(d) : d[i] # 0 /\ \A j \in (i + 1)..Len(d) : d[j] = 0

Normalize(digits, exp) ==
    LET f == FirstNonZero(digits)
        l == LastNonZero(digits)
    IN  IF f = 0 THEN DecZero
        ELSE [digits |-> SubSeq(digits, f, l), exp |-> exp + (Len(digits) - l)]

RECURSIVE NatDigits(_)
NatDigits(n) == IF n = 0 THEN <<>> ELSE NatDigits(n \div 10) \o <<n % 10>>

\* Decimal(n) of a non-negative int
DecimalOfInt(n) == Normalize(NatDigits(n), 0)

\* a ledger amount (units of 10^-6 coin) as a Decimal
DecimalOfAmount(n) == Normalize(NatDigits(n), -6)

\* v / 2, exact: the carry into a digit is the parity of the digit before it
Halve(v) ==
    LET d == v.digits
        n == Len(d)
        Digit(i) == IF i < 1 \/ i > n THEN 0 ELSE d[i]
    IN  Normalize([i \in 1..(n + 1) |-> (10 * (Digit(i - 1) % 2) + Digit(i)) \div 2],
                  v.exp - 1)

\* the exact quotient v / 2^k (it always terminates in base ten):
\* v / 2^k = (v / 2^(k div 2)) / 2^(k - k div 2)
RECURSIVE ExactDivPow2(_, _)
ExactDivPow2(v, k) ==
    IF k = 0 THEN v
    ELSE IF k = 1 THEN Halve(v)
    ELSE LET part == ExactDivPow2(v, k \div 2)
         IN  IF part.digits = <<>> THEN DecZero
             ELSE ExactDivPow2(part, k - (k \div 2))

\* digits + 1
Increment(d) ==
    IF \A i \in 1..Len(d) : d[i] = 9
    THEN <<1>> \o [i \in 1..Len(d) |-> 0]
    ELSE LET j == CHOOSE i \in 1..Len(d) :
                      d[i] # 9 /\ \A m \in (i + 1)..Len(d) : d[m] = 9
         IN  [i \in 1..Len(d) |-> IF i < j THEN d[i]
                                  ELSE IF i = j THEN d[i] + 1 ELSE 0]

\* v rounded to prec significant digits, ROUND_HALF_EVEN
DecimalRound(v, prec) ==
    IF Len(v.digits) <= prec THEN v
    ELSE LET d    == v.digits
             keep == SubSeq(d, 1, prec)
             more == \E i \in (prec + 2)..Len(d) : d[i] # 0
             up   == \/ d[prec + 1] > 5
                     \/ d[prec + 1] = 5 /\ (more \/ keep[prec] % 2 = 1)
         IN  Normalize(IF up THEN Increment(keep) ELSE keep,
                       v.exp + (Len(d) - prec))

\* Decimal.__truediv__ by the k-th power of two under the default context:
\* the exact quotient, rounded once (decimal division is correctly rounded)
DecimalDivide(a, k) == DecimalRound(ExactDivPow2(a, k), DECIMAL_PREC)

\* order of two non-negative Decimals
DecLess(a, b) ==
    IF b.digits = <<>> THEN FALSE
    ELSE IF a.digits = <<>> THEN TRUE
    ELSE LET ma == a.exp + Len(a.digits)
             mb == b.exp + Len(b.digits)
             n  == IF Len(a.digits) > Len(b.digits) THEN Len(a.digits)
                   ELSE Len(b.digits)
             da(i) == IF i > Len(a.digits) THEN 0 ELSE a.digits[i]
             db(i) == IF i > Len(b.digits) THEN 0 ELSE b.digits[i]
         IN  \/ ma < mb
             \/ ma = mb /\ \E i \in 1..n : /\ da(i) < db(i)
                                           /\ \A j \in 1..(i - 1) : da(j) = db(j)

DecLeq(a, b) == a = b \/ DecLess(a, b)

\* ------------------------------------------------------------------------
\* Reward schedules.  The divisor 2 ** halvings (a Python int in
\* GenesisConfig, Decimal('2') ** halvings in ProofOfStake, exact below 94
\* halvings) is passed as its exponent.
\* ------------------------------------------------------------------------
INITIAL_REWARD == 50
GenesisConfig_initial_reward == DecimalOfInt(INITIAL_REWARD)
GenesisConfig_halving_interval == HALVING_INTERVAL

\* get_block_reward with the cut-off one halving late
GenesisConfig_get_block_reward_LateCutoff(block_height) ==
    LET halvings == block_height \div GenesisConfig_halving_interval
    IN  IF halvings > 64 THEN DecZero
        ELSE DecimalDivide(GenesisConfig_initial_reward, halvings)

GenesisConfig_get_block_reward(block_height) ==
    LET halvings == block_height \div GenesisConfig_halving_interval
    IN  IF halvings >= 64 THEN DecZero
        ELSE DecimalDivide(GenesisConfig_initial_reward, halvings)

ProofOfStake_initial_reward == DecimalOfInt(50)
ProofOfStake_halving_interval == 210000

ProofOfStake_get_block_reward(block_height) ==
    LET halvings == block_height \div ProofOfStake_halving_interval
    IN  IF halvings >= 64 THEN DecZero
        ELSE DecimalDivide(ProofOfStake_initial_reward, halvings)

\* ------------------------------------------------------------------------
\* Bounds of the model
\* ------------------------------------------------------------------------
\* longest chain explored (the genesis block included)
MaxChain == 3
\* most transactions in an offered block
MaxBlockTxs == 3
\* most transactions in an offered block of height 0
MaxGenesisTxs == 1
\* most pending transactions explored
MaxMempool == 1
\* the clock: it starts at StartTime and advances MaxTicks times by TickStep
StartTime == 1000000
TickStep == 90000
MaxTicks == 1
\* the reward schedule is explored up to this many halvings
MaxHalvings == 65
\* most unspent outputs, and most stake (in coins), up to which blocks whose
\* ledger update raises are offered
MaxOutputs == 7
MaxStakedCoins == 300
\* most calls made on the consensus objects
MaxCalls == 4
\* the max_reorg_depth the ChainReorganizer is constructed with
max_reorg_depth == 2
\* calls of the stored chain and its reorganizer in one behaviour
MaxReorgCalls == 5

\* ------------------------------------------------------------------------
\* State
\* ------------------------------------------------------------------------
VARIABLES
    chain,                 \* Blockchain.chain: sequence of blocks
    mempool,               \* Blockchain.mempool: sequence of transactions
    utxo_set,              \* Blockchain.utxo_set: address -> unspent transactions
    validator_stakes,      \* Blockchain.validator_stakes: address -> stake
    total_staked,          \* Blockchain.total_staked
    current_block_reward,  \* Blockchain.current_block_reward
    now,                   \* int(time.time())
    reward_query,          \* a pending or answered get_block_reward query
    selector,              \* ValidatorSelector: stakes, total_staked
    finalizer,             \* BlockFinalizer: pending_blocks, finalized_blocks,
                           \*   latest_finalized_height
    manager,               \* ConsensusManager: last_finalized_height,
                           \*   pending_blocks, active_validators, validator_votes
    slashing,              \* SlashingManager: slashing_history, recent_votes
    state,                 \* ChainReorganizer.state: the stored chain
    calls,                 \* the calls made on these objects, with what they returned
    held_block,            \* a Block object in a caller's hands, with its transactions
    tx_pool,               \* Mempool: transactions with their transaction_fees
    imported,              \* a second Blockchain after import_state, and what the call gave
    tasks,                 \* the asyncio tasks running handle_reorg, and the state they started on
    pos,                   \* ProofOfStake: validators, total_stake, active_validators
    chain_state,           \* BlockchainState: validator_stakes, total_staked
    db                     \* Database of a CheckpointManager: the checkpoint:<height>
                           \*   rows by height (checkpoint:latest is state.checkpoint)

component_vars == <<selector, finalizer, manager, slashing, state, calls>>

object_vars == <<held_block, tx_pool, imported, tasks>>

store_vars == <<pos, chain_state, db>>

vars == <<chain, mempool, utxo_set, validator_stakes, total_staked,
          current_block_reward, now, reward_query, component_vars, object_vars,
          store_vars>>

\* ------------------------------------------------------------------------
\* Addresses and transaction types
\* ------------------------------------------------------------------------
SYSTEM == "0"
NoAddress == "None"
UNSPENDABLE == "unspendable"
STAKING == "staking"
BOB == "bob"
\* a recipient given as a list, ["bob"]: a value that cannot be a dictionary key
UNHASHABLE == "[bob]"
genesis_wallets == [unspendable |-> UNSPENDABLE, staking |-> STAKING]
Addresses == {SYSTEM, UNSPENDABLE, STAKING, BOB}

TRANSFER == "transfer"
STAKE == "stake"
UNSTAKE == "unstake"
GENESIS == "genesis"
MINING_REWARD == "mining_reward"
DELEGATE == "delegate"

\* absent Optional number
None == -1

AddrCode(a) ==
    CASE a = NoAddress -> 0
      [] a = SYSTEM -> 1
      [] a = UNSPENDABLE -> 2
      [] a = STAKING -> 3
      [] a = BOB -> 4
      [] a = UNHASHABLE -> 5

TypeCode(t) ==
    CASE t = TRANSFER -> 1
      [] t = STAKE -> 2
      [] t = UNSTAKE -> 3
      [] t = GENESIS -> 4
      [] t = MINING_REWARD -> 5
      [] t = DELEGATE -> 6

\* ------------------------------------------------------------------------
\* Transaction (src/blockchain/transaction.py)
\* ------------------------------------------------------------------------
\* Transaction.__init__; data is the TransactionData payload
Transaction(sender, recipient, amount, transaction_type, timestamp, data) ==
    [sender |-> sender, recipient |-> recipient, amount |-> amount,
     transaction_type |-> transaction_type, timestamp |-> timestamp,
     data |-> data]

\* TransactionData; delegation_is_decimal tells whether delegation_amount is a
\* Decimal object (as create_stake and from_dict make it) or a plain number
TransactionData(validator_address, delegation_amount, delegation_is_decimal, unbonding_time) ==
    [validator_address |-> validator_address,
     delegation_amount |-> delegation_amount,
     delegation_is_decimal |-> delegation_is_decimal,
     unbonding_time |-> unbonding_time]

NoData == TransactionData(NoAddress, None, FALSE, None)

create_genesis(recipient, amount, time) ==
    Transaction(SYSTEM, recipient, amount, GENESIS, time, NoData)

create_reward(recipient, amount, time) ==
    Transaction(SYSTEM, recipient, amount, MINING_REWARD, time, NoData)

create_stake(sender, amount, validator_address, time) ==
    Transaction(sender, validator_address, amount, STAKE, time,
                TransactionData(validator_address, amount, TRUE, None))

create_unstake(sender, amount, validator_address, time) ==
    Transaction(sender, sender, amount, UNSTAKE, time,
                TransactionData(validator_address, None, FALSE, time))

\* sha256 is taken as injective: the id is the hashed content itself
_generate_id(tx) ==
    <<AddrCode(tx.sender), AddrCode(tx.recipient), tx.amount, tx.timestamp,
      TypeCode(tx.transaction_type), AddrCode(tx.data.validator_address),
      tx.data.delegation_amount,
      IF tx.data.delegation_is_decimal THEN 1 ELSE 0, tx.data.unbonding_time>>

transaction_id(tx) == _generate_id(tx)

\* len(str(x)) of an int
IntStrLen(n) ==
    IF n = 0 THEN 1
    ELSE IF n < 0 THEN 1 + Len(NatDigits(0 - n)) ELSE Len(NatDigits(n))

\* len(self.to_string()): version, sender, recipient, amount, timestamp,
\* type, nonce and the data dictionary
to_string_len(tx) ==
    1 + Len(tx.sender) + Len(tx.recipient) + (IntStrLen(tx.amount) + 1)
      + IntStrLen(tx.timestamp) + Len(tx.transaction_type) + 1
      + (120 + Len(tx.data.validator_address)
             + IntStrLen(tx.data.delegation_amount)
             + IntStrLen(tx.data.unbonding_time))

_calculate_fee(tx) == BASE_FEE + to_string_len(tx) * SIZE_FEE_RATE

fee(tx) ==
    IF tx.transaction_type \in {GENESIS, MINING_REWARD} THEN 0
    ELSE _calculate_fee(tx)

\* Blockchain.get_block_reward
get_block_reward(block_height) == GenesisConfig_get_block_reward(block_height)

is_unspendable_address(address) == address = genesis_wallets.unspendable

is_staking_address(address) == address = genesis_wallets.staking

RECURSIVE SumAmounts(_)
SumAmounts(txs) ==
    IF txs = <<>> THEN 0 ELSE Head(txs).amount + SumAmounts(Tail(txs))

\* Blockchain.get_balance on a ledger u
BalanceIn(u, address) ==
    IF address \notin DOMAIN u THEN 0 ELSE SumAmounts(u[address])

get_balance(address) == BalanceIn(utxo_set, address)

get_validator_stake(address) ==
    IF address \in DOMAIN validator_stakes THEN validator_stakes[address]
    ELSE None

_verify_basic_fields(tx) == tx.amount >= 0

_verify_size(tx) == to_string_len(tx) <= MAX_SIZE

_verify_timestamp(tx) ==
    /\ tx.timestamp <= now + MAX_FUTURE_TIME
    /\ tx.timestamp >= now - MAX_PAST_TIME

_verify_transaction_data(tx) ==
    CASE tx.transaction_type = STAKE ->
            /\ tx.data.validator_address # NoAddress
            /\ tx.data.delegation_amount # None
            /\ tx.data.delegation_amount > 0
      [] tx.transaction_type = UNSTAKE ->
            /\ tx.data.validator_address # NoAddress
            /\ tx.data.unbonding_time # None
      [] tx.transaction_type = DELEGATE ->
            /\ tx.data.validator_address # NoAddress
            /\ tx.data.delegation_amount # None
            /\ tx.data.delegation_amount > 0
      [] OTHER -> TRUE

_verify_mining_reward(tx) ==
    /\ tx.sender = SYSTEM
    /\ DecimalOfAmount(tx.amount) = get_block_reward(Len(chain))

_verify_stake(tx) ==
    /\ tx.data.validator_address # NoAddress
    /\ tx.amount >= MINIMUM_STAKE

_verify_unstake(tx) ==
    /\ tx.data.validator_address # NoAddress
    /\ LET current_stake == get_validator_stake(tx.sender)
       IN  ~(current_stake = None \/ current_stake = 0
             \/ current_stake < tx.amount)

_verify_transaction_type(tx) ==
    CASE tx.transaction_type = TRANSFER -> TRUE
      [] tx.transaction_type = MINING_REWARD -> _verify_mining_reward(tx)
      [] tx.transaction_type = STAKE -> _verify_stake(tx)
      [] tx.transaction_type = UNSTAKE -> _verify_unstake(tx)
      [] OTHER -> FALSE

_verify_balance(tx) ==
    IF tx.transaction_type \in {GENESIS, MINING_REWARD} THEN TRUE
    ELSE get_balance(tx.sender) >= tx.amount + fee(tx)

verify_transaction(tx) ==
    IF tx.transaction_type = GENESIS THEN TRUE
    ELSE /\ _verify_basic_fields(tx)
         /\ _verify_size(tx)
         /\ _verify_timestamp(tx)
         /\ _verify_transaction_data(tx)
         /\ ~is_unspendable_address(tx.sender)
         /\ _verify_transaction_type(tx)
         /\ _verify_balance(tx)

\* ------------------------------------------------------------------------
\* Block (src/blockchain/block.py)
\* ------------------------------------------------------------------------
\* sha256 of the concatenation of two hex digests
Hash2(a, b) == a \o b

RECURSIVE MerkleLevels(_)
MerkleLevels(transaction_hashes) ==
    IF Len(transaction_hashes) <= 1 THEN transaction_hashes[1]
    ELSE LET padded == IF Len(transaction_hashes) % 2 # 0
                       THEN Append(transaction_hashes,
                                   transaction_hashes[Len(transaction_hashes)])
                       ELSE transaction_hashes
             next_level == [i \in 1..(Len(padded) \div 2) |->
                               Hash2(padded[2 * i - 1], padded[2 * i])]
         IN  MerkleLevels(next_level)

_calculate_merkle_root(transactions) ==
    IF transactions = <<>> THEN <<>>
    ELSE MerkleLevels([i \in 1..Len(transactions) |->
                          transaction_id(transactions[i])])

\* sha256 of the header: version, previous_hash, merkle_root, timestamp,
\* height, validator, difficulty, nonce
_calculate_hash(height, previous_hash, merkle_root, timestamp, validator) ==
    <<VERSION, timestamp, height, AddrCode(validator), 1, 0, Len(previous_hash)>>
        \o previous_hash \o merkle_root

RECURSIVE SumTxSizes(_)
SumTxSizes(txs) ==
    IF txs = <<>> THEN 0
    ELSE (to_string_len(Head(txs)) + 300) + SumTxSizes(Tail(txs))

_calculate_size(transactions) == 250 + SumTxSizes(transactions)

\* json.dumps(tx.to_dict()) in _calculate_size raises TypeError on a Decimal
\* inside the data dictionary: Block.__init__ then fails and no block exists
json_serializable(tx) == ~tx.data.delegation_is_decimal

BlockConstructible(transactions) ==
    \A i \in 1..Len(transactions) : json_serializable(transactions[i])

\* Block.__init__
Block(height, previous_hash, transactions, timestamp, validator) ==
    LET root == _calculate_merkle_root(transactions)
    IN  [height |-> height, previous_hash |-> previous_hash,
         transactions |-> transactions, timestamp |-> timestamp,
         validator |-> validator, merkle_root |-> root,
         hash |-> _calculate_hash(height, previous_hash, root, timestamp,
                                  validator),
         size |-> _calculate_size(transactions)]

\* ------------------------------------------------------------------------
\* Blockchain (src/blockchain/blockchain.py)
\* ------------------------------------------------------------------------
\* previous_hash of the genesis block, "0"
GenesisPreviousHash == <<0>>

\* Blockchain.update_validator_stake on st = [validator_stakes, total_staked]
update_validator_stake_NoCheck(st, address, amount, is_addition) ==
    LET current_stake == IF address \in DOMAIN st.validator_stakes
                         THEN st.validator_stakes[address] ELSE 0
        new_stake == IF is_addition THEN current_stake + amount
                     ELSE current_stake - amount
        new_total == IF is_addition THEN st.total_staked + amount
                     ELSE st.total_staked - amount
    IN  IF new_stake < MINIMUM_STAKE
        THEN [ok |-> TRUE,
              validator_stakes |->
                  [a \in DOMAIN st.validator_stakes \ {address} |->
                      st.validator_stakes[a]],
              total_staked |-> new_total]
        ELSE [ok |-> TRUE,
              validator_stakes |->
                  [a \in DOMAIN st.validator_stakes \cup {address} |->
                      IF a = address THEN new_stake ELSE st.validator_stakes[a]],
              total_staked |-> new_total]

update_validator_stake(st, address, amount, is_addition) ==
    LET current_stake == IF address \in DOMAIN st.validator_stakes
                         THEN st.validator_stakes[address] ELSE 0
        new_stake == IF is_addition THEN current_stake + amount
                     ELSE current_stake - amount
        new_total == IF is_addition THEN st.total_staked + amount
                     ELSE st.total_staked - amount
    IN  IF ~is_addition /\ current_stake < amount
        THEN [ok |-> FALSE, validator_stakes |-> st.validator_stakes,
              total_staked |-> st.total_staked]
        ELSE IF new_stake < MINIMUM_STAKE
        THEN [ok |-> TRUE,
              validator_stakes |->
                  [a \in DOMAIN st.validator_stakes \ {address} |->
                      st.validator_stakes[a]],
              total_staked |-> new_total]
        ELSE [ok |-> TRUE,
              validator_stakes |->
                  [a \in DOMAIN st.validator_stakes \cup {address} |->
                      IF a = address THEN new_stake ELSE st.validator_stakes[a]],
              total_staked |-> new_total]

RECURSIVE _process_stake_transactions(_, _)
_process_stake_transactions(st, txs) ==
    IF txs = <<>> THEN st
    ELSE LET tx == Head(txs)
             r  == IF tx.transaction_type = STAKE
                   THEN update_validator_stake(st, tx.sender, tx.amount, TRUE)
                   ELSE IF tx.transaction_type = UNSTAKE
                   THEN update_validator_stake(st, tx.sender, tx.amount, FALSE)
                   ELSE st
         IN  _process_stake_transactions(
                 [validator_stakes |-> r.validator_stakes,
                  total_staked |-> r.total_staked], Tail(txs))

\* the inner loop of _update_utxo_set: entries are dropped whole while the
\* amount still to cover is positive
RECURSIVE remaining_utxos(_, _)
remaining_utxos(utxos, spent_amount) ==
    IF utxos = <<>> THEN <<>>
    ELSE IF spent_amount > 0
    THEN remaining_utxos(Tail(utxos), spent_amount - Head(utxos).amount)
    ELSE <<Head(utxos)>> \o remaining_utxos(Tail(utxos), spent_amount)

\* u with key k set to v (a dict assignment)
DictSet(u, k, v) == [a \in DOMAIN u \cup {k} |-> IF a = k THEN v ELSE u[a]]

\* the recipient part of _update_utxo_set and of the height-0 branch
AddOutput(u, tx) ==
    DictSet(u, tx.recipient,
            Append(IF tx.recipient \in DOMAIN u THEN u[tx.recipient] ELSE <<>>,
                   tx))

\* the sender part of _update_utxo_set
RemoveSpent(u, tx) ==
    IF tx.sender # SYSTEM /\ tx.sender \in DOMAIN u
    THEN DictSet(u, tx.sender,
                 remaining_utxos(u[tx.sender], tx.amount + fee(tx)))
    ELSE u

\* one iteration of _update_utxo_set
ApplyTransaction(u, tx) == AddOutput(RemoveSpent(u, tx), tx)

\* "tx.recipient not in self.utxo_set" raises TypeError on an unhashable
\* recipient
hashable(address) == address # UNHASHABLE

\* _update_utxo_set: the ledger it leaves, and whether it raised on the way
RECURSIVE _update_utxo_set(_, _)
_update_utxo_set(u, txs) ==
    IF txs = <<>> THEN [utxo_set |-> u, raised |-> FALSE]
    ELSE IF ~hashable(Head(txs).recipient)
    THEN [utxo_set |-> RemoveSpent(u, Head(txs)), raised |-> TRUE]
    ELSE _update_utxo_set(ApplyTransaction(u, Head(txs)), Tail(txs))

\* the loop of the height-0 branch of add_block
RECURSIVE AddOutputs(_, _)
AddOutputs(u, txs) ==
    IF txs = <<>> THEN [utxo_set |-> u, raised |-> FALSE]
    ELSE IF ~hashable(Head(txs).recipient)
    THEN [utxo_set |-> u, raised |-> TRUE]
    ELSE AddOutputs(AddOutput(u, Head(txs)), Tail(txs))

\* Blockchain._update_mempool
_update_mempool(pool, block) ==
    LET block_tx_ids == {transaction_id(block.transactions[i]) :
                            i \in 1..Len(block.transactions)}
    IN  SelectSeq(pool, LAMBDA tx : transaction_id(tx) \notin block_tx_ids)

\* Blockchain.update_block_reward
update_block_reward(height) ==
    LET halvings == height \div GenesisConfig_halving_interval
    IN  IF halvings > 0
        THEN DecimalDivide(GenesisConfig_initial_reward, halvings)
        ELSE current_block_reward

\* _validate_block_reward without the test that rejects a second reward
_validate_block_reward_FirstOnly(block) ==
    LET rewards == SelectSeq(block.transactions,
                             LAMBDA tx : tx.transaction_type = MINING_REWARD)
    IN  /\ Len(rewards) >= 1
        /\ DecimalOfAmount(rewards[1].amount) = get_block_reward(block.height)

_validate_block_reward(block) ==
    LET rewards == SelectSeq(block.transactions,
                             LAMBDA tx : tx.transaction_type = MINING_REWARD)
    IN  /\ Len(rewards) = 1
        /\ DecimalOfAmount(rewards[1].amount) = get_block_reward(block.height)

_is_valid_block(block) ==
    /\ block.height = Len(chain)
    /\ block.previous_hash = chain[Len(chain)].hash
    /\ ~(block.timestamp > now + 7200)
    /\ ~(block.size > MAX_BLOCK_SIZE)
    /\ _validate_block_reward(block)
    /\ \A i \in 1..Len(block.transactions) :
           verify_transaction(block.transactions[i])

\* Blockchain.get_transaction_block: is the id in some block of the chain
get_transaction_block(tx_id) ==
    \E i \in 1..Len(chain) : \E j \in 1..Len(chain[i].transactions) :
        transaction_id(chain[i].transactions[j]) = tx_id

Unchanged(ok) ==
    [ok |-> ok, chain |-> chain, mempool |-> mempool, utxo_set |-> utxo_set,
     validator_stakes |-> validator_stakes, total_staked |-> total_staked,
     current_block_reward |-> current_block_reward]

\* Blockchain.add_block: the return value (ok) and the state it leaves
\* An exception inside the try block makes add_block return False and keeps
\* what was changed before it was raised.
add_block(block) ==
    IF block.height = 0
    THEN LET outputs == AddOutputs(utxo_set, block.transactions)
         IN  [Unchanged(~outputs.raised) EXCEPT
                 !.chain = Append(chain, block),
                 !.utxo_set = outputs.utxo_set]
    ELSE IF ~_is_valid_block(block) THEN Unchanged(FALSE)
    ELSE LET st == _process_stake_transactions(
                       [validator_stakes |-> validator_stakes,
                        total_staked |-> total_staked], block.transactions)
             updated == _update_utxo_set(utxo_set, block.transactions)
         IN  IF updated.raised
             THEN [Unchanged(FALSE) EXCEPT
                      !.utxo_set = updated.utxo_set,
                      !.validator_stakes = st.validator_stakes,
                      !.total_staked = st.total_staked]
             ELSE [ok |-> TRUE,
                   chain |-> Append(chain, block),
                   mempool |-> _update_mempool(mempool, block),
                   utxo_set |-> updated.utxo_set,
                   validator_stakes |-> st.validator_stakes,
                   total_staked |-> st.total_staked,
                   current_block_reward |-> update_block_reward(block.height)]

\* add_transaction_to_mempool with the size check letting one more in
add_transaction_to_mempool_OffByOne(transaction) ==
    IF Len(mempool) > MAX_MEMPOOL_SIZE THEN Unchanged(FALSE)
    ELSE IF \E i \in 1..Len(mempool) :
                transaction_id(mempool[i]) = transaction_id(transaction)
    THEN Unchanged(FALSE)
    ELSE IF get_transaction_block(transaction_id(transaction))
    THEN Unchanged(FALSE)
    ELSE IF ~verify_transaction(transaction) THEN Unchanged(FALSE)
    ELSE [Unchanged(TRUE) EXCEPT !.mempool = Append(mempool, transaction)]

\* Blockchain.add_transaction_to_mempool
add_transaction_to_mempool(transaction) ==
    IF Len(mempool) >= MAX_MEMPOOL_SIZE THEN Unchanged(FALSE)
    ELSE IF \E i \in 1..Len(mempool) :
                transaction_id(mempool[i]) = transaction_id(transaction)
    THEN Unchanged(FALSE)
    ELSE IF get_transaction_block(transaction_id(transaction))
    THEN Unchanged(FALSE)
    ELSE IF ~verify_transaction(transaction) THEN Unchanged(FALSE)
    ELSE [Unchanged(TRUE) EXCEPT !.mempool = Append(mempool, transaction)]

\* Blockchain.clean_mempool(max_age = 7200)
clean_mempool(max_age) ==
    SelectSeq(mempool, LAMBDA tx : now - tx.timestamp <= max_age)

\* ------------------------------------------------------------------------
\* Proposer selection (src/consensus/proof_of_stake.py)
\* ------------------------------------------------------------------------
\* ProofOfStake.active_validators after ConsensusManager.initialize_genesis_state:
\* the genesis staking wallet
ProofOfStake_active_validators == <<STAKING>>

\* ProofOfStake.select_validator: round robin over the active validators
ProofOfStake_select_validator(active_validators, block_height) ==
    IF active_validators = <<>> THEN NoAddress
    ELSE active_validators[(block_height % Len(active_validators)) + 1]

\* ConsensusManager.select_validator
select_validator(block_height) ==
    ProofOfStake_select_validator(ProofOfStake_active_validators, block_height)

\* ------------------------------------------------------------------------
\* ValidatorSelector (src/consensus/validator_selection.py)
\* ------------------------------------------------------------------------
min_stake_amount == 1000
lockup_period == 86400
SELECTION_COOLDOWN == 300

\* the dataclass Stake
Stake(address, amount, timestamp, last_validation_time) ==
    [address |-> address, amount |-> amount, timestamp |-> timestamp,
     last_validation_time |-> last_validation_time]

\* ValidatorSelector.__init__; stakes is a dict, kept here in insertion order
ValidatorSelector_init == [stakes |-> <<>>, total_staked |-> 0]

\* position of address in stakes, 0 when it is not a key
StakeIndex(stakes, address) ==
    IF \E i \in 1..Len(stakes) : stakes[i].address = address
    THEN CHOOSE i \in 1..Len(stakes) : stakes[i].address = address
    ELSE 0

\* del stakes[address]
RECURSIVE DeleteStake(_, _)
DeleteStake(stakes, address) ==
    IF stakes = <<>> THEN <<>>
    ELSE IF Head(stakes).address = address THEN Tail(stakes)
    ELSE <<Head(stakes)>> \o DeleteStake(Tail(stakes), address)

\* the operations return the selector they leave and their return value
ValidatorSelector_add_stake(s, address, amount) ==
    IF amount < min_stake_amount THEN [selector |-> s, value |-> FALSE]
    ELSE LET i == StakeIndex(s.stakes, address)
             reduced == IF i # 0 THEN s.total_staked - s.stakes[i].amount
                        ELSE s.total_staked
             stake == Stake(address, amount, now, None)
         IN  [selector |->
                  [stakes |-> IF i # 0 THEN [s.stakes EXCEPT ![i] = stake]
                              ELSE Append(s.stakes, stake),
                   total_staked |-> reduced + amount],
              value |-> TRUE]

ValidatorSelector_remove_stake(s, address) ==
    LET i == StakeIndex(s.stakes, address)
    IN  IF i = 0 THEN [selector |-> s, value |-> FALSE]
        ELSE IF now - s.stakes[i].timestamp < lockup_period
        THEN [selector |-> s, value |-> FALSE]
        ELSE [selector |-> [stakes |-> DeleteStake(s.stakes, address),
                            total_staked |-> s.total_staked - s.stakes[i].amount],
              value |-> TRUE]

\* int(sha256(seed).hexdigest(), 16): a number fixed by the seed string
RECURSIVE seed_hash(_)
seed_hash(seed) ==
    IF seed = <<>> THEN 7
    ELSE (31 * seed_hash(Tail(seed)) + Head(seed)) % 65521

\* random.seed(n); random.choice(pool): an entry fixed by n and the pool
random_choice(n, pool) == pool[(n % Len(pool)) + 1]

\* [address] * count
RECURSIVE Repeat(_, _)
Repeat(address, count) ==
    IF count <= 0 THEN <<>> ELSE <<address>> \o Repeat(address, count - 1)

\* "stake.last_validation_time and time.time() - last_validation_time < 300"
recently_selected(stake) ==
    /\ stake.last_validation_time # None
    /\ stake.last_validation_time # 0
    /\ now - stake.last_validation_time < SELECTION_COOLDOWN

RECURSIVE selection_pool(_)
selection_pool(stakes) ==
    IF stakes = <<>> THEN <<>>
    ELSE (IF recently_selected(Head(stakes)) THEN <<>>
          ELSE Repeat(Head(stakes).address,
                      Head(stakes).amount \div min_stake_amount))
         \o selection_pool(Tail(stakes))

ValidatorSelector_select_validator(s, block_height, previous_block_hash) ==
    LET pool == selection_pool(s.stakes)
        selected_validator ==
            random_choice(seed_hash(<<block_height>> \o previous_block_hash), pool)
    IN  IF s.stakes = <<>> \/ pool = <<>>
        THEN [selector |-> s, value |-> NoAddress]
        ELSE [selector |->
                  [s EXCEPT !.stakes[StakeIndex(s.stakes, selected_validator)]
                                .last_validation_time = now],
              value |-> selected_validator]

is_active_validator(s, address) ==
    /\ StakeIndex(s.stakes, address) # 0
    /\ s.stakes[StakeIndex(s.stakes, address)].amount >= min_stake_amount

\* ------------------------------------------------------------------------
\* BlockFinalizer (src/consensus/block_finalization.py)
\* ------------------------------------------------------------------------
\* finality_threshold = 0.67, in hundredths
finality_threshold_percent == 67
vote_timeout == 300

\* the dataclass BlockVote
BlockVote(validator, block_hash, timestamp, signature) ==
    [validator |-> validator, block_hash |-> block_hash,
     timestamp |-> timestamp, signature |-> signature]

\* BlockVote is declared with @dataclass alone: eq is generated, frozen is
\* not set, so its __hash__ is None and a vote cannot be put in a set
BlockVote_hashable == FALSE

BlockFinalizer_init ==
    [pending_blocks |-> <<>>, finalized_blocks |-> {}, latest_finalized_height |-> 0]

\* del d[key]
DictDel(d, key) == [k \in (DOMAIN d) \ {key} |-> d[k]]

vote_expired(vote) == now - vote.timestamp > vote_timeout

\* the loop of _check_finalization: one addition per stored vote
RECURSIVE stake_voted(_, _)
stake_voted(votes, s) ==
    IF votes = {} THEN 0
    ELSE LET vote == CHOOSE v \in votes : TRUE
             counted == IF vote_expired(vote) \/ StakeIndex(s.stakes, vote.validator) = 0
                        THEN 0
                        ELSE s.stakes[StakeIndex(s.stakes, vote.validator)].amount
         IN  counted + stake_voted(votes \ {vote}, s)

_check_finalization(f, s, block_hash) ==
    /\ block_hash \in DOMAIN f.pending_blocks
    /\ s.total_staked # 0
    /\ 100 * stake_voted(f.pending_blocks[block_hash], s)
           >= finality_threshold_percent * s.total_staked

_cleanup_old_votes(pending_blocks) ==
    LET kept == [h \in DOMAIN pending_blocks |->
                    {vote \in pending_blocks[h] : ~vote_expired(vote)}]
    IN  [h \in {k \in DOMAIN kept : kept[k] # {}} |-> kept[h]]

BlockFinalizer_finalize_block(f, block_hash, block_height) ==
    [pending_blocks |-> _cleanup_old_votes(DictDel(f.pending_blocks, block_hash)),
     finalized_blocks |-> f.finalized_blocks \cup {block_hash},
     latest_finalized_height |->
         IF block_height > f.latest_finalized_height THEN block_height
         ELSE f.latest_finalized_height]

\* submit_vote without the eligibility check of its first lines
submit_vote_NoActiveCheck(f, s, validator, block_hash, block_height, signature) ==
    IF block_hash \in f.finalized_blocks THEN [finalizer |-> f, value |-> "False"]
    ELSE LET vote == BlockVote(validator, block_hash, now, signature)
             opened == IF block_hash \in DOMAIN f.pending_blocks THEN f
                       ELSE [f EXCEPT !.pending_blocks =
                                DictSet(f.pending_blocks, block_hash, {})]
             added == [opened EXCEPT !.pending_blocks[block_hash] =
                          opened.pending_blocks[block_hash] \cup {vote}]
         IN  IF ~BlockVote_hashable
             THEN [finalizer |-> opened, value |-> "TypeError"]
             ELSE IF _check_finalization(added, s, block_hash)
             THEN [finalizer |-> BlockFinalizer_finalize_block(added, block_hash, block_height),
                   value |-> "True"]
             ELSE [finalizer |-> added, value |-> "True"]

\* submit_vote: the finalizer it leaves, and "True", "False" or the exception
submit_vote(f, s, validator, block_hash, block_height, signature) ==
    IF ~is_active_validator(s, validator) THEN [finalizer |-> f, value |-> "False"]
    ELSE IF block_hash \in f.finalized_blocks THEN [finalizer |-> f, value |-> "False"]
    ELSE LET vote == BlockVote(validator, block_hash, now, signature)
             opened == IF block_hash \in DOMAIN f.pending_blocks THEN f
                       ELSE [f EXCEPT !.pending_blocks =
                                DictSet(f.pending_blocks, block_hash, {})]
             added == [opened EXCEPT !.pending_blocks[block_hash] =
                          opened.pending_blocks[block_hash] \cup {vote}]
         IN  IF ~BlockVote_hashable
             THEN [finalizer |-> opened, value |-> "TypeError"]
             ELSE IF _check_finalization(added, s, block_hash)
             THEN [finalizer |-> BlockFinalizer_finalize_block(added, block_hash, block_height),
                   value |-> "True"]
             ELSE [finalizer |-> added, value |-> "True"]

\* ------------------------------------------------------------------------
\* ConsensusManager votes (src/consensus/consensus_manager.py)
\* ------------------------------------------------------------------------
ConsensusManager_init ==
    [last_finalized_height |-> 0, pending_blocks |-> <<>>,
     active_validators |-> <<>>, validator_votes |-> <<>>]

\* process_validator_vote: nothing in the class adds a key to
\* active_validators; past that guard the vote is stored and the call of
\* self.pos.update_validator_performance, a method ProofOfStake does not
\* have, raises AttributeError before _try_finalize_block
process_validator_vote(m, validator, block_height, vote) ==
    IF validator \notin DOMAIN m.active_validators
    THEN [manager |-> m, value |-> "False"]
    ELSE LET votes == IF validator \in DOMAIN m.validator_votes
                      THEN m.validator_votes[validator] ELSE <<>>
         IN  [manager |-> [m EXCEPT !.validator_votes =
                              DictSet(m.validator_votes, validator,
                                      DictSet(votes, block_height, vote))],
              value |-> "AttributeError"]

\* ------------------------------------------------------------------------
\* SlashingManager (src/consensus/slashing.py)
\* ------------------------------------------------------------------------
inactivity_threshold == 86400
DOUBLE_SIGNING == "double_signing"
INACTIVITY == "inactivity"

\* penalty percentages as fractions: max_penalty_percentage = 1.0,
\* min_penalty_percentage = 0.1
Fraction(numerator, denominator) == [numerator |-> numerator, denominator |-> denominator]
max_penalty_percentage == Fraction(1, 1)

SlashingManager_init == [slashing_history |-> <<>>, recent_votes |-> <<>>]

SlashingEvent(validator, reason, timestamp, penalty_amount) ==
    [validator |-> validator, reason |-> reason, timestamp |-> timestamp,
     penalty_amount |-> penalty_amount]

\* _apply_penalty: the selector it leaves; the value remove_stake or
\* add_stake returns is not read
_apply_penalty(s, validator, penalty_amount) ==
    LET i == StakeIndex(s.stakes, validator)
        reduced == s.stakes[i].amount - penalty_amount
        new_amount == IF reduced < 0 THEN 0 ELSE reduced
    IN  IF i = 0 THEN s
        ELSE IF new_amount < min_stake_amount
        THEN ValidatorSelector_remove_stake(s, validator).selector
        ELSE ValidatorSelector_add_stake(s, validator, new_amount).selector

\* _create_slashing_event: int(stake.amount * penalty_percentage)
_create_slashing_event(sl, s, validator, reason, penalty_percentage) ==
    LET i == StakeIndex(s.stakes, validator)
        penalty_amount == (s.stakes[i].amount * penalty_percentage.numerator)
                              \div penalty_percentage.denominator
        event == SlashingEvent(validator, reason, now, penalty_amount)
        history == IF validator \in DOMAIN sl.slashing_history
                   THEN sl.slashing_history[validator] ELSE <<>>
    IN  IF i = 0
        THEN [slashing |-> sl, selector |-> s, value |-> "ValueError"]
        ELSE [slashing |-> [sl EXCEPT !.slashing_history =
                               DictSet(sl.slashing_history, validator,
                                       Append(history, event))],
              selector |-> _apply_penalty(s, validator, penalty_amount),
              value |-> "SlashingEvent"]

check_double_signing(sl, s, validator, block_height, vote) ==
    IF validator \notin DOMAIN sl.recent_votes
    THEN [slashing |-> [sl EXCEPT !.recent_votes =
                           DictSet(sl.recent_votes, validator, <<>>)],
          selector |-> s, value |-> "None"]
    ELSE IF /\ block_height \in DOMAIN sl.recent_votes[validator]
            /\ sl.recent_votes[validator][block_height].block_hash # vote.block_hash
    THEN _create_slashing_event(sl, s, validator, DOUBLE_SIGNING, max_penalty_percentage)
    ELSE [slashing |-> [sl EXCEPT !.recent_votes[validator] =
                           DictSet(sl.recent_votes[validator], block_height, vote)],
          selector |-> s, value |-> "None"]

\* the percentage with the cap left out
inactivity_penalty_NoCap(inactive_duration) ==
    Fraction(inactive_duration, 10 * inactivity_threshold)

\* min(min_penalty_percentage * (inactive_duration / inactivity_threshold),
\* max_penalty_percentage * 0.5) with min_penalty_percentage = 0.1
inactivity_penalty(inactive_duration) ==
    IF 2 * inactive_duration < 10 * inactivity_threshold
    THEN Fraction(inactive_duration, 10 * inactivity_threshold)
    ELSE Fraction(1, 2)

\* check_inactivity(validator, current_time): "current_time or
\* int(time.time())" takes the clock for None and for 0
check_inactivity_at(sl, s, validator, current_time) ==
    LET i == StakeIndex(s.stakes, validator)
        time == IF current_time = None \/ current_time = 0 THEN now ELSE current_time
        inactive_duration == time - s.stakes[i].last_validation_time
    IN  IF i = 0 THEN [slashing |-> sl, selector |-> s, value |-> "None"]
        ELSE IF s.stakes[i].last_validation_time = None
                \/ s.stakes[i].last_validation_time = 0
        THEN [slashing |-> sl, selector |-> s, value |-> "None"]
        ELSE IF inactive_duration > inactivity_threshold
        THEN _create_slashing_event(sl, s, validator, INACTIVITY,
                                    inactivity_penalty(inactive_duration))
        ELSE [slashing |-> sl, selector |-> s, value |-> "None"]

\* check_inactivity with current_time left out
check_inactivity(sl, s, validator) == check_inactivity_at(sl, s, validator, None)

\* ------------------------------------------------------------------------
\* Stored chain (src/storage/database.py: ChainState) and ChainReorganizer
\* (src/storage/chain_reorg.py). apply_block, revert_block and
\* get_chain_metadata of the state, and the block type with an index that
\* the storage layer works on, are not among the source files: they follow
\* the specification and what tests/test_storage.py expects of them.
\* ------------------------------------------------------------------------
NoHash == "None"
GenesisParent == "0"
GENESIS_SENDER == "genesis"

\* a block of the storage layer, with the one transaction it carries
StoredBlock(index, previous_hash, hash, sender, recipient, amount) ==
    [index |-> index, previous_hash |-> previous_hash, hash |-> hash,
     sender |-> sender, recipient |-> recipient, amount |-> amount]

\* the keys block:<hash>, chain:head, chain:metadata, balance:<address> and
\* checkpoint:latest of the database
ChainState_init ==
    [blocks |-> <<>>, head |-> NoHash,
     metadata |-> [height |-> 0, total_transactions |-> 0],
     balances |-> <<>>, checkpoint |-> <<>>]

get_account_balance(st, address) ==
    IF address \in DOMAIN st.balances THEN st.balances[address] ELSE 0

\* apply_block: a spend from an address that holds less than the amount
\* fails and leaves the state as it was; otherwise the block is stored and
\* becomes the head, the metadata counts it and the balances move
BlockchainState_apply_block(st, block) ==
    IF block.sender # GENESIS_SENDER
       /\ get_account_balance(st, block.sender) < block.amount
    THEN [state |-> st, value |-> FALSE]
    ELSE LET debited == IF block.sender = GENESIS_SENDER THEN st.balances
                        ELSE DictSet(st.balances, block.sender,
                                     get_account_balance(st, block.sender) - block.amount)
             credited == DictSet(debited, block.recipient,
                                 (IF block.recipient \in DOMAIN debited
                                  THEN debited[block.recipient] ELSE 0) + block.amount)
         IN  [state |-> [st EXCEPT
                            !.blocks = DictSet(st.blocks, block.hash, block),
                            !.head = block.hash,
                            !.metadata = [height |-> st.metadata.height + 1,
                                          total_transactions |->
                                              st.metadata.total_transactions + 1],
                            !.balances = credited],
              value |-> TRUE]

\* revert_block: the balances move back, the metadata no longer counts the
\* block, and the head steps to the parent when the block was the head
BlockchainState_revert_block(st, block) ==
    LET debited == DictSet(st.balances, block.recipient,
                           get_account_balance(st, block.recipient) - block.amount)
        credited == IF block.sender = GENESIS_SENDER THEN debited
                    ELSE DictSet(debited, block.sender,
                                 (IF block.sender \in DOMAIN debited
                                  THEN debited[block.sender] ELSE 0) + block.amount)
    IN  [state |-> [st EXCEPT
                       !.head = IF st.head = block.hash
                                THEN (IF block.previous_hash \in DOMAIN st.blocks
                                      THEN block.previous_hash ELSE NoHash)
                                ELSE st.head,
                       !.metadata = [height |-> st.metadata.height - 1,
                                     total_transactions |->
                                         st.metadata.total_transactions - 1],
                       !.balances = credited],
         value |-> TRUE]

\* {b.index: b for b in new_blocks}: a later block replaces an earlier one
\* of the same index
RECURSIVE new_blocks_by_height(_)
new_blocks_by_height(new_blocks) ==
    IF new_blocks = <<>> THEN <<>>
    ELSE LET last == new_blocks[Len(new_blocks)]
             earlier == new_blocks_by_height(SubSeq(new_blocks, 1, Len(new_blocks) - 1))
         IN  DictSet(earlier, last.index, last)

\* the loop of _find_fork_point from current_block_hash on
RECURSIVE WalkBack(_, _, _, _)
WalkBack(st, by_height, current_block_hash, old_chain) ==
    IF current_block_hash = NoHash \/ current_block_hash \notin DOMAIN st.blocks
    THEN [fork_point |-> NoHash, old_chain |-> <<>>, height |-> 0 - 1]
    ELSE LET data == st.blocks[current_block_hash]
         IN  IF /\ data.index \in DOMAIN by_height
                /\ by_height[data.index].hash = current_block_hash
             THEN [fork_point |-> current_block_hash, old_chain |-> old_chain,
                   height |-> data.index]
             ELSE WalkBack(st, by_height, data.previous_hash, Append(old_chain, data))

_find_fork_point(st, new_blocks, current_tip) ==
    LET found == WalkBack(st, new_blocks_by_height(new_blocks), current_tip, <<>>)
    IN  [fork_point |-> found.fork_point, old_chain |-> found.old_chain,
         new_chain |-> IF found.fork_point = NoHash THEN <<>>
                       ELSE SelectSeq(new_blocks, LAMBDA b : b.index > found.height)]

\* reversed(old_chain)
RECURSIVE reversed(_)
reversed(blocks) ==
    IF blocks = <<>> THEN <<>> ELSE Append(reversed(Tail(blocks)), Head(blocks))

_create_checkpoint(st) ==
    [st EXCEPT !.checkpoint = <<[metadata |-> st.metadata, head |-> st.head]>>]

_restore_checkpoint(st, checkpoint) ==
    [st EXCEPT !.metadata = checkpoint.metadata, !.head = checkpoint.head]

\* the two loops of handle_reorg: the state when the loop ends or a block
\* fails, the blocks done, and whether a block failed
RECURSIVE RevertBlocks(_, _, _)
RevertBlocks(st, blocks, done) ==
    IF blocks = <<>> THEN [state |-> st, done |-> done, failed |-> FALSE]
    ELSE LET r == BlockchainState_revert_block(st, Head(blocks))
         IN  IF ~r.value THEN [state |-> r.state, done |-> done, failed |-> TRUE]
             ELSE RevertBlocks(r.state, Tail(blocks), Append(done, Head(blocks)))

RECURSIVE ApplyBlocks(_, _, _)
ApplyBlocks(st, blocks, done) ==
    IF blocks = <<>> THEN [state |-> st, done |-> done, failed |-> FALSE]
    ELSE LET r == BlockchainState_apply_block(st, Head(blocks))
         IN  IF ~r.value THEN [state |-> r.state, done |-> done, failed |-> TRUE]
             ELSE ApplyBlocks(r.state, Tail(blocks), Append(done, Head(blocks)))

\* the depth check with the bound taken one too far
reorg_too_deep_OffByOne(reorg_depth) == reorg_depth > max_reorg_depth + 1

\* reorg_depth > self.max_reorg_depth
reorg_too_deep(reorg_depth) == reorg_depth > max_reorg_depth

\* handle_reorg: the state it leaves, "ReorgResult" or "None", the blocks it
\* reverted and applied on the way, and whether a step failed; new_chain[-1]
\* of an empty new_chain raises IndexError inside the inner try
handle_reorg(st, new_blocks, current_tip) ==
    LET found == _find_fork_point(st, new_blocks, current_tip)
        rejected == [state |-> st, value |-> "None", reverted |-> <<>>,
                     applied |-> <<>>, failed |-> FALSE]
        checkpointed == _create_checkpoint(st)
        checkpoint == checkpointed.checkpoint[1]
        old == RevertBlocks(checkpointed, reversed(found.old_chain), <<>>)
        new == IF old.failed THEN [state |-> old.state, done |-> <<>>, failed |-> TRUE]
               ELSE ApplyBlocks(old.state, found.new_chain, <<>>)
    IN  IF found.fork_point = NoHash THEN rejected
        ELSE IF reorg_too_deep(Len(found.old_chain)) THEN rejected
        ELSE IF new.failed \/ found.new_chain = <<>>
        THEN [state |-> _restore_checkpoint(new.state, checkpoint), value |-> "None",
              reverted |-> old.done, applied |-> new.done, failed |-> new.failed]
        ELSE [state |-> [new.state EXCEPT
                            !.head = found.new_chain[Len(found.new_chain)].hash],
              value |-> "ReorgResult", reverted |-> old.done, applied |-> new.done,
              failed |-> FALSE]

\* ------------------------------------------------------------------------
\* handle_reorg as a coroutine: asyncio runs a task until an await suspends
\* ------------------------------------------------------------------------
\* an await that hands control to the event loop before the task goes on
await_suspends_Yields == TRUE

\* every await of handle_reorg is on a coroutine of ChainReorganizer whose
\* body is synchronous (_find_fork_point, _create_checkpoint, _revert_block,
\* _apply_block, _update_chain_head, _restore_checkpoint): none of them
\* reaches a future, so no await hands control to the event loop
await_suspends == FALSE

NoTasks == [base |-> ChainState_init, running |-> <<>>]

\* asyncio.create_task(handle_reorg(new_blocks, current_tip)): the arguments
\* are bound when the task is created
create_task(new_blocks, current_tip) ==
    [new_blocks |-> new_blocks, current_tip |-> current_tip, pc |-> "find",
     old_chain |-> <<>>, new_chain |-> <<>>, added |-> <<>>, checkpoint |-> <<>>,
     value |-> "pending"]

\* where handle_reorg goes on after the checkpoint or a block
NextPc(old_chain, new_chain) ==
    IF old_chain # <<>> THEN "revert"
    ELSE IF new_chain # <<>> THEN "apply"
    ELSE "head"

\* handle_reorg from one await to the next: the task and the state after it
resume(t, st) ==
    CASE t.pc = "find" ->
           LET found == _find_fork_point(st, t.new_blocks, t.current_tip)
           IN  IF found.fork_point = NoHash \/ reorg_too_deep(Len(found.old_chain))
               THEN [task |-> [t EXCEPT !.pc = "done", !.value = "None"], state |-> st]
               ELSE [task |-> [t EXCEPT !.pc = "checkpoint",
                                        !.old_chain = reversed(found.old_chain),
                                        !.new_chain = found.new_chain,
                                        !.added = found.new_chain],
                     state |-> st]
      [] t.pc = "checkpoint" ->
           LET checkpointed == _create_checkpoint(st)
           IN  [task |-> [t EXCEPT !.pc = NextPc(t.old_chain, t.new_chain),
                                   !.checkpoint = checkpointed.checkpoint],
                state |-> checkpointed]
      [] t.pc = "revert" ->
           LET r == BlockchainState_revert_block(st, Head(t.old_chain))
           IN  IF ~r.value THEN [task |-> [t EXCEPT !.pc = "restore"], state |-> r.state]
               ELSE [task |-> [t EXCEPT !.pc = NextPc(Tail(t.old_chain), t.new_chain),
                                        !.old_chain = Tail(t.old_chain)],
                     state |-> r.state]
      [] t.pc = "apply" ->
           LET r == BlockchainState_apply_block(st, Head(t.new_chain))
           IN  IF ~r.value THEN [task |-> [t EXCEPT !.pc = "restore"], state |-> r.state]
               ELSE [task |-> [t EXCEPT !.pc = NextPc(<<>>, Tail(t.new_chain)),
                                        !.new_chain = Tail(t.new_chain)],
                     state |-> r.state]
      [] t.pc = "head" ->
           IF t.added = <<>>
           THEN [task |-> [t EXCEPT !.pc = "restore"], state |-> st]
           ELSE [task |-> [t EXCEPT !.pc = "done", !.value = "ReorgResult"],
                 state |-> [st EXCEPT !.head = t.added[Len(t.added)].hash]]
      [] t.pc = "restore" ->
           [task |-> [t EXCEPT !.pc = "done", !.value = "None"],
            state |-> _restore_checkpoint(st, t.checkpoint[1])]
      [] OTHER -> [task |-> t, state |-> st]

\* the task run until it returns
RECURSIVE run_until_complete(_, _)
run_until_complete(t, st) ==
    IF t.pc = "done" THEN [task |-> t, state |-> st]
    ELSE run_until_complete(resume(t, st).task, resume(t, st).state)

\* what the event loop does with a task it picks: up to the next await that
\* suspends
run_task(t, st) ==
    IF await_suspends THEN resume(t, st) ELSE run_until_complete(t, st)

\* ------------------------------------------------------------------------
\* Block and Transaction objects and their dictionaries
\* (src/blockchain/block.py, src/blockchain/transaction.py)
\* ------------------------------------------------------------------------
Block_MAX_SIZE == 1048576
MAX_TRANSACTIONS == 2000

\* no block: the holder is a sequence of at most one block
NoBlock == <<>>
NoSignature == "None"

\* a Transaction object: its fields, and the transaction_id that __init__
\* stored; set_signature stores the signature
TransactionObject(tx, signature) ==
    [tx |-> tx, transaction_id |-> _generate_id(tx), signature |-> signature]

\* Block._calculate_merkle_root over the transaction_id attributes
Block_calculate_merkle_root(transactions) ==
    IF transactions = <<>> THEN <<>>
    ELSE MerkleLevels([i \in 1..Len(transactions) |-> transactions[i].transaction_id])

FieldsOf(transactions) == [i \in 1..Len(transactions) |-> transactions[i].tx]

\* Block.__init__ on Transaction objects
BlockObject(height, previous_hash, transactions, timestamp, validator) ==
    LET root == Block_calculate_merkle_root(transactions)
    IN  [height |-> height, previous_hash |-> previous_hash,
         transactions |-> transactions, timestamp |-> timestamp,
         validator |-> validator, merkle_root |-> root,
         hash |-> _calculate_hash(height, previous_hash, root, timestamp,
                                  validator),
         size |-> _calculate_size(FieldsOf(transactions))]

\* tx.verify_transaction(None): a genesis transaction returns True before
\* the blockchain is touched; any other one raises AttributeError on
\* blockchain.is_unspendable_address, which is caught and gives False
verify_transaction_None(tx) == tx.transaction_type = GENESIS

\* Block._get_reward_transaction is not None
_get_reward_transaction(block) ==
    \E i \in 1..Len(block.transactions) :
        block.transactions[i].tx.transaction_type = MINING_REWARD

\* Block.verify_block
verify_block(block) ==
    /\ _calculate_hash(block.height, block.previous_hash, block.merkle_root,
                       block.timestamp, block.validator) = block.hash
    /\ Block_calculate_merkle_root(block.transactions) = block.merkle_root
    /\ ~(block.timestamp > now + 7200)
    /\ ~(block.size > Block_MAX_SIZE)
    /\ ~(Len(block.transactions) > MAX_TRANSACTIONS)
    /\ \A i \in 1..Len(block.transactions) :
           verify_transaction_None(block.transactions[i].tx)
    /\ block.height > 0 => _get_reward_transaction(block)

\* Transaction.to_dict: the id, the signature and the fields; the amount goes
\* through str and the data dictionary is copied
Transaction_to_dict(transaction) ==
    [transaction_id |-> transaction.transaction_id,
     signature |-> transaction.signature,
     fields |-> transaction.tx]

\* Block.to_dict
Block_to_dict(block) ==
    [height |-> block.height, previous_hash |-> block.previous_hash,
     transactions |-> [i \in 1..Len(block.transactions) |->
                          Transaction_to_dict(block.transactions[i])],
     timestamp |-> block.timestamp, validator |-> block.validator,
     merkle_root |-> block.merkle_root, hash |-> block.hash,
     size |-> block.size]

\* Transaction.from_dict raises TypeError in set_signature(None): every
\* dictionary has the key "signature"
Transaction_from_dict_raises(data) == data.signature = NoSignature

\* Transaction.from_dict: the constructor is called without data, so the id
\* is generated over an empty TransactionData; the data dictionary is put in
\* afterwards, its delegation_amount as a Decimal
Transaction_from_dict(data) ==
    [tx |-> [data.fields EXCEPT
                !.data.delegation_is_decimal = (data.fields.data.delegation_amount # None)],
     transaction_id |-> _generate_id([data.fields EXCEPT !.data = NoData]),
     signature |-> data.signature]

\* Block.from_dict: "TypeError" from a transaction, "BlockError" on a hash
\* mismatch, else the block
Block_from_dict(data) ==
    IF \E i \in 1..Len(data.transactions) :
           Transaction_from_dict_raises(data.transactions[i])
    THEN [value |-> "TypeError", block |-> NoBlock]
    ELSE LET transactions == [i \in 1..Len(data.transactions) |->
                                 Transaction_from_dict(data.transactions[i])]
         IN  IF ~BlockConstructible(FieldsOf(transactions))
             THEN [value |-> "TypeError", block |-> NoBlock]
             ELSE LET block == BlockObject(data.height, data.previous_hash,
                                           transactions, data.timestamp,
                                           data.validator)
                  IN  IF block.hash # data.hash
                      THEN [value |-> "BlockError", block |-> NoBlock]
                      ELSE [value |-> "Block", block |-> block]

\* ------------------------------------------------------------------------
\* Blockchain.export_state / import_state
\* ------------------------------------------------------------------------
NoImport == <<>>

\* the Transaction object the ledger holds for tx: create_genesis and
\* create_reward set no signature; a wallet's transaction carries one when
\* its sender signed it
LedgerTransaction(tx, signed) ==
    TransactionObject(tx, IF signed /\ tx.sender # SYSTEM THEN "sig" ELSE NoSignature)

LedgerTransactions(transactions, signed) ==
    [i \in 1..Len(transactions) |-> LedgerTransaction(transactions[i], signed)]

\* the Block object of a block of the chain
LedgerBlock(block, signed) ==
    [block EXCEPT !.transactions = LedgerTransactions(block.transactions, signed)]

\* the state of a Blockchain as one value
BlockchainObject(signed) ==
    [chain |-> [i \in 1..Len(chain) |-> LedgerBlock(chain[i], signed)],
     utxo_set |-> [a \in DOMAIN utxo_set |-> LedgerTransactions(utxo_set[a], signed)],
     mempool |-> LedgerTransactions(mempool, signed),
     current_block_reward |-> current_block_reward,
     validator_stakes |-> validator_stakes,
     total_staked |-> total_staked]

\* Blockchain.export_state; str() of a Decimal and Decimal() of that string
\* give the number back
export_state(b) ==
    [chain |-> [i \in 1..Len(b.chain) |-> Block_to_dict(b.chain[i])],
     utxo_set |-> [a \in DOMAIN b.utxo_set |->
                      [i \in 1..Len(b.utxo_set[a]) |->
                          Transaction_to_dict(b.utxo_set[a][i])]],
     mempool |-> [i \in 1..Len(b.mempool) |-> Transaction_to_dict(b.mempool[i])],
     current_block_reward |-> b.current_block_reward,
     validator_stakes |-> b.validator_stakes,
     total_staked |-> b.total_staked]

SomeRaises(dicts) ==
    \E i \in 1..Len(dicts) : Transaction_from_dict_raises(dicts[i])

FromDicts(dicts) == [i \in 1..Len(dicts) |-> Transaction_from_dict(dicts[i])]

\* Blockchain.import_state on the blockchain b: the assignments are made in
\* order, and an exception leaves the ones made before it and is raised as
\* BlockchainError
import_state(b, exported) ==
    IF \E i \in 1..Len(exported.chain) : Block_from_dict(exported.chain[i]).value # "Block"
    THEN [value |-> "BlockchainError", blockchain |-> b]
    ELSE LET b1 == [b EXCEPT !.chain = [i \in 1..Len(exported.chain) |->
                                           Block_from_dict(exported.chain[i]).block]]
         IN  IF \E a \in DOMAIN exported.utxo_set : SomeRaises(exported.utxo_set[a])
             THEN [value |-> "BlockchainError", blockchain |-> b1]
             ELSE LET b2 == [b1 EXCEPT !.utxo_set = [a \in DOMAIN exported.utxo_set |->
                                                       FromDicts(exported.utxo_set[a])]]
                  IN  IF SomeRaises(exported.mempool)
                      THEN [value |-> "BlockchainError", blockchain |-> b2]
                      ELSE [value |-> "None",
                            blockchain |->
                                [b2 EXCEPT !.mempool = FromDicts(exported.mempool),
                                           !.current_block_reward = exported.current_block_reward,
                                           !.validator_stakes = exported.validator_stakes,
                                           !.total_staked = exported.total_staked]]

\* ------------------------------------------------------------------------
\* Mempool (src/blockchain/mempool.py), constructed with the blockchain
\* ------------------------------------------------------------------------
\* Mempool.max_size, 5000 in __init__, scaled down
Mempool_max_size == 2
Mempool_max_age == 259200
\* Decimal('0.00001') and Decimal('0.0001') in units of 1/Coin
Mempool_min_fee_rate == 10
FIXED_FEE == 100

\* transactions (an OrderedDict) and transaction_fees, kept together in
\* insertion order
Mempool_init == <<>>

Mempool_calculate_transaction_fee(transaction) == FIXED_FEE

\* len(str(transaction.to_dict())): the twelve keys and their values
to_dict_str_len(transaction) == to_string_len(transaction) + 300

\* Mempool._validate_transaction
Mempool_validate_transaction(transaction) ==
    /\ ~is_unspendable_address(transaction.sender)
    /\ ~(now - transaction.timestamp > Mempool_max_age)
    /\ verify_transaction(transaction)
    /\ ~(Mempool_calculate_transaction_fee(transaction)
             < Mempool_min_fee_rate * to_dict_str_len(transaction))

\* Mempool._remove_transaction
_remove_transaction(p, tx_id) ==
    SelectSeq(p, LAMBDA entry : transaction_id(entry.transaction) # tx_id)

\* Mempool._remove_lowest_fee_transaction: min() gives the first entry of
\* the lowest fee
_remove_lowest_fee_transaction(p) ==
    IF p = <<>> THEN p
    ELSE LET lowest == CHOOSE i \in 1..Len(p) :
                           /\ \A j \in 1..Len(p) : p[i].fee <= p[j].fee
                           /\ \A j \in 1..(i - 1) : p[j].fee > p[i].fee
         IN  _remove_transaction(p, transaction_id(p[lowest].transaction))

\* Mempool.add_transaction: the pool it leaves and its return value
Mempool_add_transaction(p, transaction) ==
    IF ~Mempool_validate_transaction(transaction) THEN [pool |-> p, value |-> FALSE]
    ELSE IF \E i \in 1..Len(p) :
                transaction_id(p[i].transaction) = transaction_id(transaction)
    THEN [pool |-> p, value |-> FALSE]
    ELSE LET room == IF Len(p) >= Mempool_max_size
                     THEN _remove_lowest_fee_transaction(p) ELSE p
         IN  [pool |-> Append(room,
                              [transaction |-> transaction,
                               fee |-> Mempool_calculate_transaction_fee(transaction)]),
              value |-> TRUE]

\* Mempool.remove_transactions
RECURSIVE remove_transactions(_, _)
remove_transactions(p, transaction_ids) ==
    IF transaction_ids = <<>> THEN p
    ELSE remove_transactions(_remove_transaction(p, Head(transaction_ids)),
                             Tail(transaction_ids))

\* Mempool.clear_expired
clear_expired(p) ==
    SelectSeq(p, LAMBDA entry : ~(now - entry.transaction.timestamp > Mempool_max_age))

\* sorted(..., key = fee, reverse = True): a stable sort, entries of equal
\* fee keep their order
RECURSIVE sorted_by_fee(_)
sorted_by_fee(entries) ==
    IF entries = <<>> THEN <<>>
    ELSE LET last == entries[Len(entries)]
             rest == sorted_by_fee(SubSeq(entries, 1, Len(entries) - 1))
             ahead == SelectSeq(rest, LAMBDA entry : entry.fee >= last.fee)
             behind == SelectSeq(rest, LAMBDA entry : entry.fee < last.fee)
         IN  ahead \o <<last>> \o behind

\* Mempool.get_transactions(limit)
get_transactions(p, limit) ==
    LET sorted_txs == sorted_by_fee(p)
    IN  [i \in 1..(IF Len(sorted_txs) < limit THEN Len(sorted_txs) ELSE limit) |->
            sorted_txs[i].transaction]

\* ProofOfStake.__init__: no validator
ProofOfStake_init == [validators |-> <<>>, total_stake |-> 0, active_validators |-> <<>>]

\* BlockchainState.__init__: no stake
BlockchainState_init == [validator_stakes |-> <<>>, total_staked |-> 0]

\* Database._init_db: an empty key_value_store, of which db holds the
\* checkpoint:<height> rows by height
Database_init == <<>>

\* the objects after construction, and no call made yet
InitComponents ==
    /\ selector = ValidatorSelector_init
    /\ finalizer = BlockFinalizer_init
    /\ manager = ConsensusManager_init
    /\ slashing = SlashingManager_init
    /\ state = ChainState_init
    /\ calls = <<>>
    /\ held_block = NoBlock
    /\ tx_pool = Mempool_init
    /\ imported = NoImport
    /\ tasks = NoTasks
    /\ pos = ProofOfStake_init
    /\ chain_state = BlockchainState_init
    /\ db = Database_init

\* ------------------------------------------------------------------------
\* Inputs: the transactions and blocks that clients and peers submit
\* ------------------------------------------------------------------------
\* transactions signed at time t, in the order a producer lists them
TransactionsAt(t) ==
    <<create_reward(STAKING, 50 * Coin, t),
      create_reward(BOB, 50 * Coin, t),
      create_reward(STAKING, 25 * Coin, t),
      Transaction(STAKING, BOB, 10 * Coin, TRANSFER, t, NoData),
      Transaction(UNSPENDABLE, BOB, 10 * Coin, TRANSFER, t, NoData),
      Transaction(UNSPENDABLE, BOB, 60 * Coin, GENESIS, t, NoData),
      Transaction(SYSTEM, BOB, 0 - 10 * Coin, GENESIS, t, NoData),
      create_stake(STAKING, 145 * Coin, STAKING, t),
      Transaction(STAKING, STAKING, 145 * Coin, STAKE, t,
                  TransactionData(STAKING, 145 * Coin, FALSE, None)),
      create_unstake(STAKING, 145 * Coin, STAKING, t)>>

\* what may be submitted now: transactions signed now, and one signed at
\* the start of the run
TransactionList ==
    Append(TransactionsAt(now),
           Transaction(STAKING, BOB, 10 * Coin, TRANSFER, StartTime, NoData))

Transactions == {TransactionList[i] : i \in 1..Len(TransactionList)}

\* the transactions of TransactionList at the indexes in S, in list order
RECURSIVE Pick(_)
Pick(S) ==
    IF S = {} THEN <<>>
    ELSE LET m == CHOOSE i \in S : \A j \in S : j <= i
         IN  Append(Pick(S \ {m}), TransactionList[m])

\* transaction lists of at most n entries of which a block can be built
TxSeqs(n) ==
    {txs \in {Pick(S) : S \in {T \in SUBSET (1..Len(TransactionList)) :
                                  Cardinality(T) <= n}} :
        BlockConstructible(txs)}

\* offered blocks: blocks built on the tip, blocks with a wrong height,
\* parent or timestamp, and further blocks of height 0; none once the chain
\* holds MaxChain blocks
OfferedBlocks ==
    LET tip == chain[Len(chain)].hash
        reward_only == <<TransactionList[1]>>
    IN  IF Len(chain) >= MaxChain THEN {} ELSE
        {Block(Len(chain), tip, txs, now, STAKING) : txs \in TxSeqs(MaxBlockTxs)}
        \cup {Block(Len(chain) + 1, tip, reward_only, now, STAKING),
              Block(Len(chain), GenesisPreviousHash, reward_only, now, STAKING),
              Block(Len(chain), tip, reward_only, now + 7201, STAKING),
              Block(Len(chain), tip, reward_only, now, BOB),
              Block(Len(chain), tip, reward_only, now, NoAddress)}
        \cup {Block(0, GenesisPreviousHash, txs, now, STAKING) :
                 txs \in TxSeqs(MaxGenesisTxs)}

\* ------------------------------------------------------------------------
\* Initial state: Blockchain.__init__ / _initialize_genesis_block
\* ------------------------------------------------------------------------
genesis_transactions ==
    <<create_genesis(UNSPENDABLE, 50 * Coin, StartTime),
      create_genesis(STAKING, 150 * Coin, StartTime)>>

genesis_block ==
    Block(0, GenesisPreviousHash, genesis_transactions, StartTime, NoAddress)

\* no reward query: heights low <= high, and the answers of GenesisConfig
\* and of ProofOfStake for the two heights once computed
RewardQuery(low, high) ==
    [low |-> low, high |-> high, genesis |-> <<>>, pos |-> <<>>]

IdleQuery == RewardQuery(0, 0)

Init ==
    /\ chain = <<genesis_block>>
    /\ utxo_set = AddOutputs(<<>>, genesis_transactions).utxo_set
    /\ mempool = <<>>
    /\ validator_stakes = <<>>
    /\ total_staked = 0
    /\ current_block_reward = GenesisConfig_initial_reward
    /\ now = StartTime
    /\ reward_query = IdleQuery
    /\ InitComponents

\* ------------------------------------------------------------------------
\* Actions
\* ------------------------------------------------------------------------
Apply(r) ==
    /\ chain' = r.chain
    /\ mempool' = r.mempool
    /\ utxo_set' = r.utxo_set
    /\ validator_stakes' = r.validator_stakes
    /\ total_staked' = r.total_staked
    /\ current_block_reward' = r.current_block_reward
    /\ UNCHANGED <<now, reward_query, component_vars, object_vars, store_vars>>

AddBlock == \E block \in OfferedBlocks : Apply(add_block(block))

AddTransactionToMempool ==
    /\ Len(mempool) < MaxMempool
    /\ \E transaction \in Transactions :
           Apply(add_transaction_to_mempool(transaction))

CleanMempool ==
    /\ mempool' = clean_mempool(7200)
    /\ UNCHANGED <<chain, utxo_set, validator_stakes, total_staked,
                   current_block_reward, now, reward_query, component_vars, object_vars, store_vars>>

Tick ==
    /\ now < StartTime + MaxTicks * TickStep
    /\ now' = now + TickStep
    /\ UNCHANGED <<chain, mempool, utxo_set, validator_stakes, total_staked,
                   current_block_reward, reward_query, component_vars, object_vars, store_vars>>

Next == AddBlock \/ AddTransactionToMempool \/ CleanMempool \/ Tick

Spec == Init /\ [][Next]_vars

\* ------------------------------------------------------------------------
\* Calls on the consensus objects: ValidatorSelector, BlockFinalizer,
\* ConsensusManager, SlashingManager
\* ------------------------------------------------------------------------
V1 == "v1"
V2 == "v2"
Validators == {V1, V2}
StakeAmounts == {min_stake_amount, 3 * min_stake_amount}
VoteHeights == {1, 2}
VoteHashes == {<<1>>, <<2>>}

\* a call as its caller sees it: arguments, the caller's stake when it was
\* made, and what it returned
Call(op, validator, block_height, block_hash, amount, stake, value) ==
    [op |-> op, validator |-> validator, block_height |-> block_height,
     block_hash |-> block_hash, amount |-> amount, stake |-> stake,
     time |-> now, value |-> value]

PyBool(b) == IF b THEN "True" ELSE "False"

StakeOf(s, address) ==
    IF StakeIndex(s.stakes, address) = 0 THEN 0
    ELSE s.stakes[StakeIndex(s.stakes, address)].amount

blockchain_vars == <<chain, mempool, utxo_set, validator_stakes, total_staked,
                     current_block_reward, now, reward_query>>

AddStake ==
    /\ Len(calls) < MaxCalls
    /\ \E address \in Validators : \E amount \in StakeAmounts :
           LET r == ValidatorSelector_add_stake(selector, address, amount)
           IN  /\ selector' = r.selector
               /\ calls' = Append(calls, Call("add_stake", address, 0, <<>>, amount,
                                              StakeOf(selector, address), PyBool(r.value)))
    /\ UNCHANGED <<finalizer, manager, slashing, state, blockchain_vars, object_vars, store_vars>>

RemoveStake ==
    /\ Len(calls) < MaxCalls
    /\ \E address \in Validators :
           LET r == ValidatorSelector_remove_stake(selector, address)
           IN  /\ selector' = r.selector
               /\ calls' = Append(calls, Call("remove_stake", address, 0, <<>>, 0,
                                              StakeOf(selector, address), PyBool(r.value)))
    /\ UNCHANGED <<finalizer, manager, slashing, state, blockchain_vars, object_vars, store_vars>>

SelectValidator ==
    /\ Len(calls) < MaxCalls
    /\ \E block_height \in VoteHeights : \E previous_block_hash \in VoteHashes :
           LET r == ValidatorSelector_select_validator(selector, block_height,
                                                       previous_block_hash)
           IN  /\ selector' = r.selector
               /\ calls' = Append(calls, Call("select_validator", NoAddress, block_height,
                                              previous_block_hash, 0, 0, r.value))
    /\ UNCHANGED <<finalizer, manager, slashing, state, blockchain_vars, object_vars, store_vars>>

SubmitVote ==
    /\ Len(calls) < MaxCalls
    /\ \E validator \in Validators : \E block_hash \in VoteHashes :
       \E block_height \in VoteHeights :
           LET r == submit_vote(finalizer, selector, validator, block_hash,
                                block_height, "sig")
           IN  /\ finalizer' = r.finalizer
               /\ calls' = Append(calls, Call("submit_vote", validator, block_height,
                                              block_hash, 0,
                                              StakeOf(selector, validator), r.value))
    /\ UNCHANGED <<selector, manager, slashing, state, blockchain_vars, object_vars, store_vars>>

ProcessValidatorVote ==
    /\ Len(calls) < MaxCalls
    /\ \E validator \in Validators : \E block_height \in VoteHeights :
           LET r == process_validator_vote(manager, validator, block_height, TRUE)
           IN  /\ manager' = r.manager
               /\ calls' = Append(calls, Call("process_validator_vote", validator,
                                              block_height, <<>>, 0,
                                              StakeOf(selector, validator), r.value))
    /\ UNCHANGED <<selector, finalizer, slashing, state, blockchain_vars, object_vars, store_vars>>

CheckDoubleSigning ==
    /\ Len(calls) < MaxCalls
    /\ \E validator \in Validators : \E block_hash \in VoteHashes :
       \E block_height \in VoteHeights :
           LET r == check_double_signing(slashing, selector, validator, block_height,
                        BlockVote(validator, block_hash, now, "sig"))
           IN  /\ slashing' = r.slashing
               /\ selector' = r.selector
               /\ calls' = Append(calls, Call("check_double_signing", validator,
                                              block_height, block_hash, 0,
                                              StakeOf(selector, validator), r.value))
    /\ UNCHANGED <<finalizer, manager, state, blockchain_vars, object_vars, store_vars>>

CheckInactivity ==
    /\ Len(calls) < MaxCalls
    /\ \E validator \in Validators :
           LET r == check_inactivity(slashing, selector, validator)
           IN  /\ slashing' = r.slashing
               /\ selector' = r.selector
               /\ calls' = Append(calls, Call("check_inactivity", validator, 0, <<>>, 0,
                                              StakeOf(selector, validator), r.value))
    /\ UNCHANGED <<finalizer, manager, state, blockchain_vars, object_vars, store_vars>>

\* the times a caller passes as current_time: none, and times from the
\* threshold on to past five thresholds after the start
InactivityDelays == {0, 1, 86400, 345600, 777600}

InactivityTimes ==
    {None} \cup {StartTime + inactivity_threshold + d : d \in InactivityDelays}

\* the penalty_amount of the event a call returned, None when it returned
\* no event
PenaltyOf(r, validator) ==
    IF r.value # "SlashingEvent" THEN None
    ELSE r.slashing.slashing_history[validator][
             Len(r.slashing.slashing_history[validator])].penalty_amount

CheckInactivityAt ==
    /\ Len(calls) < MaxCalls
    /\ \E validator \in Validators : \E current_time \in InactivityTimes :
           LET r == check_inactivity_at(slashing, selector, validator, current_time)
           IN  /\ slashing' = r.slashing
               /\ selector' = r.selector
               /\ calls' = Append(calls,
                      Call("check_inactivity", validator, 0, <<>>, 0,
                           StakeOf(selector, validator), r.value)
                      @@ [current_time |-> current_time,
                          penalty_amount |-> PenaltyOf(r, validator)])
    /\ UNCHANGED <<finalizer, manager, state, blockchain_vars, object_vars, store_vars>>

\* the blocks that reach the storage layer: a chain G, A1, A2, a competing
\* branch B1, B2 on G, a block C2 competing with A2, and a block X2 on B1
\* whose sender holds nothing
BlockG == StoredBlock(0, GenesisParent, "G", GENESIS_SENDER, "r0", 100)
BlockA1 == StoredBlock(1, "G", "A1", GENESIS_SENDER, "r1", 100)
BlockA2 == StoredBlock(2, "A1", "A2", "r1", "r2", 100)
BlockA3 == StoredBlock(3, "A2", "A3", GENESIS_SENDER, "r3", 100)
BlockB1 == StoredBlock(1, "G", "B1", GENESIS_SENDER, "f1", 200)
BlockB2 == StoredBlock(2, "B1", "B2", GENESIS_SENDER, "f2", 200)
BlockC2 == StoredBlock(2, "A1", "C2", GENESIS_SENDER, "f2", 200)
BlockX2 == StoredBlock(2, "B1", "X2", "poor", "f2", 1000)

StoredBlocks == {BlockG, BlockA1, BlockA2, BlockA3, BlockB1, BlockB2, BlockC2, BlockX2}

\* competing segments, the common ancestor first
Segments ==
    {<<BlockG, BlockB1>>, <<BlockG, BlockB1, BlockB2>>, <<BlockG, BlockB1, BlockX2>>,
     <<BlockA1, BlockC2>>, <<BlockG>>, <<BlockB1, BlockB2>>, <<BlockG, BlockA1>>}

\* the canonical chain, from the head down
RECURSIVE CanonicalFrom(_, _)
CanonicalFrom(st, hash) ==
    IF hash \notin DOMAIN st.blocks THEN <<>>
    ELSE <<st.blocks[hash]>> \o CanonicalFrom(st, st.blocks[hash].previous_hash)

\* number of canonical blocks above the highest one that is in new_blocks
\* too; -1 when there is none
ForkDepth(st, new_blocks) ==
    LET canonical == CanonicalFrom(st, st.head)
        common == {i \in 1..Len(canonical) :
                      \E j \in 1..Len(new_blocks) : new_blocks[j] = canonical[i]}
    IN  IF common = {} THEN 0 - 1
        ELSE (CHOOSE i \in common : \A k \in common : i <= k) - 1

\* a new block on the head is applied
ApplyBlock ==
    /\ Len(calls) < MaxReorgCalls
    /\ \E block \in StoredBlocks :
           /\ block.previous_hash = (IF state.head = NoHash THEN GenesisParent
                                     ELSE state.head)
           /\ LET r == BlockchainState_apply_block(state, block)
              IN  /\ state' = r.state
                  /\ calls' = Append(calls, [op |-> "apply_block", block |-> block,
                                             value |-> PyBool(r.value)])
    /\ UNCHANGED <<selector, finalizer, manager, slashing, blockchain_vars, object_vars, store_vars>>

HandleReorg ==
    /\ Len(calls) < MaxReorgCalls
    /\ \E new_blocks \in Segments :
           LET r == handle_reorg(state, new_blocks, state.head)
           IN  /\ state' = r.state
               /\ calls' = Append(calls,
                      [op |-> "handle_reorg", new_blocks |-> new_blocks,
                       fork_depth |-> ForkDepth(state, new_blocks),
                       reverted |-> r.reverted, applied |-> r.applied,
                       failed |-> r.failed, value |-> r.value])
    /\ UNCHANGED <<selector, finalizer, manager, slashing, blockchain_vars, object_vars, store_vars>>

NextReorg == ApplyBlock \/ HandleReorg

SpecReorg == Init /\ [][NextReorg]_vars

\* ------------------------------------------------------------------------
\* A block in a caller's hands: built, changed through its attributes,
\* verified, and rebuilt from its dictionary
\* ------------------------------------------------------------------------
TamperedAmount == 999 * Coin

\* the transaction lists blocks are built from
BuiltTransactions ==
    {<<create_genesis(UNSPENDABLE, 50 * Coin, StartTime)>>,
     <<create_genesis(UNSPENDABLE, 50 * Coin, StartTime),
       create_genesis(STAKING, 150 * Coin, StartTime)>>,
     <<create_reward(STAKING, 50 * Coin, StartTime)>>}

ExtraTransaction == TransactionObject(create_genesis(BOB, Coin, StartTime), NoSignature)

\* Block(height, previous_hash, transactions, timestamp): the block and, for
\* reference, the transactions it was built with
BuildBlock ==
    /\ Len(calls) < MaxCalls
    /\ held_block = NoBlock
    /\ \E height \in {0, 1}, txs \in BuiltTransactions, signature \in {NoSignature, "sig"} :
           LET transactions == [i \in 1..Len(txs) |-> TransactionObject(txs[i], signature)]
               block == BlockObject(height, GenesisPreviousHash, transactions, now, STAKING)
           IN  /\ held_block' = <<[block |-> block, built |-> transactions]>>
               /\ calls' = Append(calls, [op |-> "Block", value |-> block.hash])
    /\ UNCHANGED <<selector, finalizer, manager, slashing, state, blockchain_vars, tx_pool, imported, tasks, store_vars>>

\* the block with its transaction list replaced, every other attribute kept
WithTransactions(transactions, op) ==
    /\ Len(calls) < MaxCalls
    /\ held_block' = [held_block EXCEPT ![1].block.transactions = transactions]
    /\ calls' = Append(calls, [op |-> op, value |-> "None"])
    /\ UNCHANGED <<selector, finalizer, manager, slashing, state, blockchain_vars, tx_pool, imported, tasks, store_vars>>

\* block.transactions[i].amount = 999
SetAmount ==
    /\ held_block # NoBlock
    /\ \E i \in 1..Len(held_block[1].block.transactions) :
           WithTransactions([held_block[1].block.transactions EXCEPT
                                ![i].tx.amount = TamperedAmount], "set_amount")

\* block.transactions[i].recipient = "bob"
SetRecipient ==
    /\ held_block # NoBlock
    /\ \E i \in 1..Len(held_block[1].block.transactions) :
           WithTransactions([held_block[1].block.transactions EXCEPT
                                ![i].tx.recipient = BOB], "set_recipient")

\* block.transactions.append(tx)
AppendTransaction ==
    /\ held_block # NoBlock
    /\ Len(held_block[1].block.transactions) < MaxBlockTxs
    /\ WithTransactions(Append(held_block[1].block.transactions, ExtraTransaction), "append")

\* block.transactions.pop()
PopTransaction ==
    /\ held_block # NoBlock
    /\ held_block[1].block.transactions # <<>>
    /\ WithTransactions(SubSeq(held_block[1].block.transactions, 1,
                               Len(held_block[1].block.transactions) - 1), "pop")

\* block.verify_block()
VerifyBlock ==
    /\ Len(calls) < MaxCalls
    /\ held_block # NoBlock
    /\ calls' = Append(calls, [op |-> "verify_block",
                               value |-> PyBool(verify_block(held_block[1].block))])
    /\ UNCHANGED <<selector, finalizer, manager, slashing, state, blockchain_vars, object_vars, store_vars>>

\* the dictionaries a peer can send for the block: block.to_dict(), the same
\* with another hash, and the same with a transaction's amount changed
SentDicts(block) ==
    LET data == Block_to_dict(block)
    IN  {data, [data EXCEPT !.hash = <<>>]}
        \cup {[data EXCEPT !.transactions[i].fields.amount = TamperedAmount] :
                 i \in 1..Len(data.transactions)}

\* Block.from_dict(data)
FromDict ==
    /\ Len(calls) < MaxCalls
    /\ held_block # NoBlock
    /\ \E data \in SentDicts(held_block[1].block) :
           calls' = Append(calls, [op |-> "from_dict", data |-> data,
                                   value |-> Block_from_dict(data).value])
    /\ UNCHANGED <<selector, finalizer, manager, slashing, state, blockchain_vars, object_vars, store_vars>>

NextBlock ==
    \/ BuildBlock
    \/ SetAmount
    \/ SetRecipient
    \/ AppendTransaction
    \/ PopTransaction
    \/ VerifyBlock
    \/ FromDict
    \/ Tick

SpecBlock == Init /\ [][NextBlock]_vars

\* ------------------------------------------------------------------------
\* The mempools under load, and the node's block production
\* ------------------------------------------------------------------------
\* Node._block_production_loop takes self.blockchain.mempool[:10]; the 10 is
\* scaled down with the mempool size
PRODUCTION_LIMIT == 2

MempoolAmounts == {1, 2, 10, 20}

\* transfers a funded address signs at the start of the run; the fee grows
\* with the digits of the amount
MempoolTransactions ==
    {Transaction(STAKING, BOB, a * Coin, TRANSFER, StartTime, NoData) : a \in MempoolAmounts}

\* Blockchain.add_transaction_to_mempool, as often as clients call it
AddToMempool ==
    \E transaction \in MempoolTransactions :
        Apply(add_transaction_to_mempool(transaction))

\* the transactions _block_production_loop puts in its block
production_transactions(reward_tx) ==
    <<reward_tx>> \o SubSeq(mempool, 1, IF Len(mempool) < PRODUCTION_LIMIT
                                        THEN Len(mempool) ELSE PRODUCTION_LIMIT)

\* one iteration of Node._block_production_loop on the node of the
\* selected validator
ProduceBlock ==
    /\ Len(chain) < MaxChain
    /\ Len(mempool) > 0
    /\ LET current_height == Len(chain)
           validator == select_validator(current_height)
           reward_tx == create_reward(validator, 50 * Coin, now)
           transactions == production_transactions(reward_tx)
       IN  /\ validator # NoAddress
           /\ BlockConstructible(transactions)
           /\ Apply(add_block(Block(current_height, chain[Len(chain)].hash,
                                    transactions, now, validator)))

\* Mempool.add_transaction
MempoolAdd ==
    /\ \E transaction \in MempoolTransactions :
           tx_pool' = Mempool_add_transaction(tx_pool, transaction).pool
    /\ UNCHANGED <<blockchain_vars, component_vars, held_block, imported, tasks, store_vars>>

\* Mempool.remove_transactions with the ids of the newest block
MempoolRemove ==
    /\ tx_pool' = remove_transactions(tx_pool,
                   [i \in 1..Len(chain[Len(chain)].transactions) |->
                       transaction_id(chain[Len(chain)].transactions[i])])
    /\ UNCHANGED <<blockchain_vars, component_vars, held_block, imported, tasks, store_vars>>

\* Mempool.clear_expired
MempoolClearExpired ==
    /\ tx_pool' = clear_expired(tx_pool)
    /\ UNCHANGED <<blockchain_vars, component_vars, held_block, imported, tasks, store_vars>>

NextMempool ==
    \/ AddToMempool
    \/ ProduceBlock
    \/ CleanMempool
    \/ MempoolAdd
    \/ MempoolRemove
    \/ MempoolClearExpired
    \/ Tick

SpecMempool == Init /\ [][NextMempool]_vars

\* a Blockchain just constructed: the genesis block and its two outputs
Blockchain_init ==
    [chain |-> <<LedgerBlock(genesis_block, FALSE)>>,
     utxo_set |-> [a \in DOMAIN AddOutputs(<<>>, genesis_transactions).utxo_set |->
                      LedgerTransactions(AddOutputs(<<>>, genesis_transactions).utxo_set[a], FALSE)],
     mempool |-> <<>>,
     current_block_reward |-> GenesisConfig_initial_reward,
     validator_stakes |-> <<>>,
     total_staked |-> 0]

\* ------------------------------------------------------------------------
\* Two reorganizations gathered on one event loop
\* ------------------------------------------------------------------------
\* the chain is built before the tasks are created
BuildChain ==
    /\ tasks.running = <<>>
    /\ ApplyBlock

\* task1 = create_task(handle_reorg(s1, head)); task2 = create_task(
\* handle_reorg(s2, head)); await gather(task1, task2)
Gather ==
    /\ tasks.running = <<>>
    /\ state.head # NoHash
    /\ \E s1 \in Segments : \E s2 \in Segments :
           tasks' = [base |-> state,
                     running |-> <<create_task(s1, state.head),
                                   create_task(s2, state.head)>>]
    /\ UNCHANGED <<blockchain_vars, component_vars, held_block, tx_pool, imported, store_vars>>

\* the event loop runs one of the tasks that have not returned
RunTask ==
    \E i \in 1..Len(tasks.running) :
        /\ tasks.running[i].pc # "done"
        /\ LET r == run_task(tasks.running[i], state)
           IN  /\ state' = r.state
               /\ tasks' = [tasks EXCEPT !.running[i] = r.task]
        /\ UNCHANGED <<selector, finalizer, manager, slashing, calls,
                       blockchain_vars, held_block, tx_pool, imported, store_vars>>

NextConcurrent == BuildChain \/ Gather \/ RunTask

SpecConcurrent == Init /\ [][NextConcurrent]_vars

\* ------------------------------------------------------------------------
\* Bootstrapping a second node from a snapshot
\* ------------------------------------------------------------------------
\* fresh = Blockchain(); fresh.import_state(blockchain.export_state()), with
\* the wallets' transactions signed or not; one node is bootstrapped per run
ExportImport ==
    /\ imported = NoImport
    /\ \E signed \in BOOLEAN :
           LET source == BlockchainObject(signed)
               r == import_state(Blockchain_init, export_state(source))
           IN  imported' = <<[value |-> r.value, blockchain |-> r.blockchain,
                              source |-> source]>>
    /\ UNCHANGED <<blockchain_vars, component_vars, held_block, tx_pool, tasks, store_vars>>

NextExport == AddBlock \/ AddTransactionToMempool \/ ExportImport

SpecExport == Init /\ [][NextExport]_vars

NextSelector == AddStake \/ RemoveStake \/ SelectValidator \/ Tick

SpecSelector == Init /\ [][NextSelector]_vars

NextFinality == AddStake \/ SubmitVote \/ ProcessValidatorVote \/ Tick

SpecFinality == Init /\ [][NextFinality]_vars

NextSlashing ==
    AddStake \/ SelectValidator \/ CheckDoubleSigning \/ CheckInactivity \/ Tick

SpecSlashing == Init /\ [][NextSlashing]_vars

NextInactivity == AddStake \/ SelectValidator \/ CheckInactivityAt \/ Tick

SpecInactivity == Init /\ [][NextInactivity]_vars

\* ------------------------------------------------------------------------
\* Blocks whose ledger update raises: a transaction of type GENESIS passes
\* verify_transaction whatever its recipient is, and a recipient that is a
\* list raises TypeError at "tx.recipient not in self.utxo_set"
\* ------------------------------------------------------------------------
RaisingTransaction == Transaction(SYSTEM, UNHASHABLE, Coin, GENESIS, now, NoData)

RaisingBlocks ==
    LET tip == chain[Len(chain)].hash
        reward == TransactionList[1]
        transfer == TransactionList[4]
        stake == TransactionList[9]
    IN  IF Len(chain) >= MaxChain THEN {} ELSE
        {Block(Len(chain), tip, txs, now, STAKING) :
             txs \in {<<reward, RaisingTransaction>>,
                      <<reward, RaisingTransaction, transfer>>,
                      <<reward, transfer, RaisingTransaction>>,
                      <<reward, stake, RaisingTransaction>>}}
        \cup {Block(0, GenesisPreviousHash, txs, now, STAKING) :
                 txs \in {<<RaisingTransaction>>,
                          <<TransactionList[6], RaisingTransaction>>}}

RewardBlocks ==
    IF Len(chain) >= MaxChain THEN {}
    ELSE {Block(Len(chain), chain[Len(chain)].hash, <<TransactionList[i]>>,
                now, STAKING) : i \in 1..2}

RECURSIVE CountOutputs(_, _)
CountOutputs(u, addresses) ==
    IF addresses = {} THEN 0
    ELSE LET a == CHOOSE x \in addresses : TRUE
         IN  Len(u[a]) + CountOutputs(u, addresses \ {a})

AddRaisingBlock ==
    /\ CountOutputs(utxo_set, DOMAIN utxo_set) < MaxOutputs
    /\ total_staked < MaxStakedCoins * Coin
    /\ \E block \in RaisingBlocks : Apply(add_block(block))

AddRewardBlock == \E block \in RewardBlocks : Apply(add_block(block))

NextAtomic == AddRaisingBlock \/ AddRewardBlock \/ Tick

SpecAtomic == Init /\ [][NextAtomic]_vars

\* ------------------------------------------------------------------------
\* The reward schedule on its own: get_block_reward of GenesisConfig and of
\* ProofOfStake, asked for two heights
\* ------------------------------------------------------------------------
\* heights around every halving up to MaxHalvings halvings
Heights ==
    {k * HALVING_INTERVAL + d : k \in 0..MaxHalvings,
                                d \in {0, 1, HALVING_INTERVAL - 1}}

HeightSteps == {0, 1, HALVING_INTERVAL - 1, HALVING_INTERVAL}

ledger_vars == <<chain, mempool, utxo_set, validator_stakes, total_staked,
                 current_block_reward, now>>

InitReward ==
    /\ chain = <<genesis_block>>
    /\ utxo_set = AddOutputs(<<>>, genesis_transactions).utxo_set
    /\ mempool = <<>>
    /\ validator_stakes = <<>>
    /\ total_staked = 0
    /\ current_block_reward = GenesisConfig_initial_reward
    /\ now = StartTime
    /\ InitComponents
    /\ \E low \in Heights : \E step \in HeightSteps :
           reward_query = RewardQuery(low, low + step)

GenesisConfigGetBlockReward ==
    /\ reward_query.genesis = <<>>
    /\ reward_query' =
           [reward_query EXCEPT !.genesis =
               <<GenesisConfig_get_block_reward(reward_query.low),
                 GenesisConfig_get_block_reward(reward_query.high)>>]
    /\ UNCHANGED <<ledger_vars, component_vars, object_vars, store_vars>>

ProofOfStakeGetBlockReward ==
    /\ reward_query.pos = <<>>
    /\ reward_query' =
           [reward_query EXCEPT !.pos =
               <<ProofOfStake_get_block_reward(reward_query.low),
                 ProofOfStake_get_block_reward(reward_query.high)>>]
    /\ UNCHANGED <<ledger_vars, component_vars, object_vars, store_vars>>

NextReward == GenesisConfigGetBlockReward \/ ProofOfStakeGetBlockReward

SpecReward == InitReward /\ [][NextReward]_vars

\* ------------------------------------------------------------------------
\* Ledger totals
\* ------------------------------------------------------------------------
AddressList == <<SYSTEM, UNSPENDABLE, STAKING, BOB>>

RECURSIVE SumBalances(_, _)
SumBalances(u, addresses) ==
    IF addresses = <<>> THEN 0
    ELSE BalanceIn(u, Head(addresses)) + SumBalances(u, Tail(addresses))

\* the sum of the balances of all addresses in ledger u
TotalBalance(u) == SumBalances(u, AddressList)

RECURSIVE MintedIn(_)
MintedIn(blocks) ==
    IF blocks = <<>> THEN 0
    ELSE SumAmounts(SelectSeq(Head(blocks).transactions,
                              LAMBDA tx : tx.transaction_type
                                              \in {GENESIS, MINING_REWARD}))
         + MintedIn(Tail(blocks))

\* Blockchain._calculate_circulating_supply
_calculate_circulating_supply ==
    MintedIn(chain) - get_balance(genesis_wallets.unspendable)

\* amount + fee summed over the transactions of txs sent by sender
RECURSIVE SpentBy(_, _)
SpentBy(txs, sender) ==
    IF txs = <<>> THEN 0
    ELSE (IF Head(txs).sender = sender THEN Head(txs).amount + fee(Head(txs))
          ELSE 0) + SpentBy(Tail(txs), sender)

\* amounts summed over the transactions of txs received by recipient
RECURSIVE ReceivedBy(_, _)
ReceivedBy(txs, recipient) ==
    IF txs = <<>> THEN 0
    ELSE (IF Head(txs).recipient = recipient THEN Head(txs).amount ELSE 0)
         + ReceivedBy(Tail(txs), recipient)

Contains(txs, tx) == \E i \in 1..Len(txs) : txs[i] = tx

RewardsOf(block) ==
    SelectSeq(block.transactions, LAMBDA tx : tx.transaction_type = MINING_REWARD)

\* ------------------------------------------------------------------------
\* Properties
\* ------------------------------------------------------------------------

\* C1: after any sequence of add_block and add_transaction_to_mempool
\* calls, get_balance(addr) >= 0 for every address.
C1_BalancesNonNegative == \A addr \in Addresses : get_balance(addr) >= 0

\* C2: in every chain state, a transaction from a non-system sender whose
\* amount + fee exceeds the sender's balance fails verify_transaction, is
\* refused by add_transaction_to_mempool, and every block containing it is
\* rejected by add_block.
C2_OverspendRejected ==
    \A tx \in Transactions :
        (tx.sender # SYSTEM /\ tx.amount + fee(tx) > get_balance(tx.sender))
        => /\ ~verify_transaction(tx)
           /\ ~add_transaction_to_mempool(tx).ok
           /\ \A block \in OfferedBlocks :
                  Contains(block.transactions, tx) => ~add_block(block).ok

\* C3: no double spend inside a block: for every block add_block accepts
\* and every non-system sender, the sum of amount + fee over the sender's
\* transactions in the block is at most the sender's balance before it.
C3_NoDoubleSpendInBlock ==
    \A block \in OfferedBlocks :
        add_block(block).ok
        => \A sender \in Addresses \ {SYSTEM} :
               SpentBy(block.transactions, sender) <= get_balance(sender)

\* C4: conservation: the sum of the balances of all addresses equals the sum
\* of all Genesis and MiningReward amounts in the chain minus the
\* unspendable-address balance. The sentence is read both ways: with the
\* unspendable address among "all addresses" and, as the circulating supply
\* identity, without it; the property asks for either.
C4_Conservation ==
    \/ TotalBalance(utxo_set) = _calculate_circulating_supply
    \/ TotalBalance(utxo_set) - get_balance(UNSPENDABLE)
           = _calculate_circulating_supply

\* C5: no unauthorized mint: for every non-genesis block add_block accepts
\* at height h, the sum of all balances after the block is at most the sum
\* before it plus block_reward(h).
C5_NoUnauthorizedMint ==
    \A block \in OfferedBlocks :
        (block.height # 0 /\ add_block(block).ok)
        => LET created == TotalBalance(add_block(block).utxo_set)
                              - TotalBalance(utxo_set)
           IN  created <= 0
               \/ DecLeq(DecimalOfAmount(created), get_block_reward(block.height))

\* C6: transfer effect: when an accepted block holds a valid Transfer of
\* amount a with fee f from a non-system sender S to another address R, and
\* S and R send nothing else in the block, S's balance afterwards is its
\* balance before minus a minus f and R's is its balance before plus a,
\* each plus whatever else the block pays to it.
C6_TransferEffect ==
    \A block \in OfferedBlocks :
        (block.height # 0 /\ add_block(block).ok)
        => \A i \in 1..Len(block.transactions) :
               LET tx == block.transactions[i]
                   S == tx.sender
                   R == tx.recipient
                   others == SelectSeq(block.transactions, LAMBDA o : o # tx)
                   after == add_block(block).utxo_set
               IN  (/\ tx.transaction_type = TRANSFER
                    /\ S # SYSTEM /\ R # S
                    /\ SpentBy(others, S) = 0 /\ SpentBy(others, R) = 0)
                   => /\ BalanceIn(after, S)
                           = get_balance(S) - tx.amount - fee(tx)
                                 + ReceivedBy(others, S)
                      /\ BalanceIn(after, R)
                           = get_balance(R) + tx.amount + ReceivedBy(others, R)

\* C7: the unspendable genesis address is never the sender of a transaction
\* in an accepted block or in the mempool, and its balance never decreases,
\* whatever the transaction type.
C7_UnspendableNeverSpends ==
    [][/\ \A i \in 1..Len(chain') : \A j \in 1..Len(chain'[i].transactions) :
              chain'[i].transactions[j].sender # UNSPENDABLE
       /\ \A i \in 1..Len(mempool') : mempool'[i].sender # UNSPENDABLE
       /\ BalanceIn(utxo_set', UNSPENDABLE) >= get_balance(UNSPENDABLE)]_vars

\* C8: chain linkage: chain[i].height = i for every index i,
\* chain[i].previous_hash = chain[i-1].hash for every i >= 1, and the chain
\* holds exactly one block of height 0, also when further height-0 blocks
\* are offered. (Indexes of the model start at 1.)
C8_ChainLinkage ==
    /\ \A i \in 1..Len(chain) : chain[i].height = i - 1
    /\ \A i \in 2..Len(chain) : chain[i].previous_hash = chain[i - 1].hash
    /\ Cardinality({i \in 1..Len(chain) : chain[i].height = 0}) = 1

HasOneExactReward(block) ==
    /\ Len(RewardsOf(block)) = 1
    /\ DecimalOfAmount(RewardsOf(block)[1].amount)
           = get_block_reward(block.height)

ExactReward(block_height) ==
    ExactDivPow2(DecimalOfInt(INITIAL_REWARD), block_height \div HALVING_INTERVAL)

QueriedHeights == <<reward_query.low, reward_query.high>>

\* C10 as stated: get_block_reward(h) is exactly
\* initial_reward / 2^floor(h / halving_interval) below 64 halvings and 0
\* from 64 halvings on, the reward does not increase with the height, and
\* GenesisConfig and ProofOfStake agree.
C10_HalvingScheduleExact ==
    /\ reward_query.genesis # <<>> =>
           /\ \A i \in 1..2 :
                  reward_query.genesis[i] =
                      IF QueriedHeights[i] \div HALVING_INTERVAL < 64
                      THEN ExactReward(QueriedHeights[i]) ELSE DecZero
           /\ DecLeq(reward_query.genesis[2], reward_query.genesis[1])
    /\ (reward_query.genesis # <<>> /\ reward_query.pos # <<>>) =>
           reward_query.genesis = reward_query.pos

\* C10, amended: get_block_reward(h) is initial_reward / 2^floor(h /
\* halving_interval) rounded half-even to 28 significant digits (so exact
\* below 40 halvings) when there are fewer than 64 halvings, and 0 otherwise;
\* reward(0) = 50, reward(210000) = 25, reward(210000*64) = 0; the reward is
\* non-increasing in h; GenesisConfig and ProofOfStake agree on every height.
C10_HalvingScheduleRounded ==
    /\ reward_query.genesis # <<>> =>
           /\ \A i \in 1..2 :
                  LET h == QueriedHeights[i]
                      halvings == h \div HALVING_INTERVAL
                      r == reward_query.genesis[i]
                  IN  /\ halvings >= 64 => r = DecZero
                      /\ halvings < 64 => r = DecimalRound(ExactReward(h), 28)
                      /\ halvings < 40 => r = ExactReward(h)
                      /\ h = 0 => r = DecimalOfInt(50)
                      /\ h = 210000 => r = DecimalOfInt(25)
                      /\ h = 210000 * 64 => r = DecZero
           /\ DecLeq(reward_query.genesis[2], reward_query.genesis[1])
    /\ (reward_query.genesis # <<>> /\ reward_query.pos # <<>>) =>
           reward_query.genesis = reward_query.pos

\* both implementations answered for the last height before the cut-off,
\* where the quotient has more than 28 digits, and for the first height
\* after it
C10_Witness ==
    /\ reward_query.low = 64 * HALVING_INTERVAL - 1
    /\ reward_query.high = 64 * HALVING_INTERVAL
    /\ reward_query.genesis # <<>>
    /\ reward_query.pos # <<>>
    /\ Len(ExactReward(reward_query.low).digits) > 28
    /\ reward_query.genesis[1] # DecZero
    /\ reward_query.genesis[2] = DecZero

\* C11: a non-genesis block is accepted by add_block only if block.validator
\* is the validator selected for block.height; a block proposed by any other
\* address, or with no proposer, is rejected.
C11_ProposerIsSelected ==
    \A block \in OfferedBlocks :
        (block.height # 0 /\ add_block(block).ok)
        => /\ block.validator # NoAddress
           /\ block.validator = select_validator(block.height)

\* C12: whenever add_block returns False, the chain, every balance of the
\* unspent-output ledger, validator_stakes, total_staked and the mempool
\* are exactly as they were before the call.
C12_AtomicRejection ==
    \A block \in OfferedBlocks \cup RaisingBlocks :
        LET r == add_block(block)
        IN  ~r.ok => /\ r.chain = chain
                     /\ \A a \in Addresses \cup DOMAIN r.utxo_set :
                            BalanceIn(r.utxo_set, a) = get_balance(a)
                     /\ r.validator_stakes = validator_stakes
                     /\ r.total_staked = total_staked
                     /\ r.mempool = mempool

\* C13: selection determinism: for a fixed validator set (no add_stake or
\* remove_stake in between), two calls of select_validator with the same
\* (block_height, previous_block_hash) return the same validator, whatever
\* calls were made in between and whatever time elapsed between them.
C13_SelectionDeterminism ==
    \A i \in 1..Len(calls) : \A j \in i..Len(calls) :
        (/\ calls[i].op = "select_validator"
         /\ calls[j].op = "select_validator"
         /\ calls[i].block_height = calls[j].block_height
         /\ calls[i].block_hash = calls[j].block_hash
         /\ \A k \in i..j : calls[k].op \notin {"add_stake", "remove_stake"})
        => calls[i].value = calls[j].value

\* the stake of the distinct validators that hold a vote for block_hash
\* which has not expired
RECURSIVE SumStakes(_, _)
SumStakes(s, addresses) ==
    IF addresses = {} THEN 0
    ELSE LET a == CHOOSE x \in addresses : TRUE
         IN  StakeOf(s, a) + SumStakes(s, addresses \ {a})

DistinctVotedStake(f, s, block_hash) ==
    IF block_hash \notin DOMAIN f.pending_blocks THEN 0
    ELSE SumStakes(s, {vote.validator : vote \in
                          {v \in f.pending_blocks[block_hash] : ~vote_expired(v)}})

\* C14: finality threshold: a block hash enters finalized_blocks only during
\* a submit_vote for it at which the summed stake of the distinct validators
\* holding a vote for that hash that has not expired, the vote just
\* submitted included, is at least finality_threshold times the total
\* staked.
C14_FinalityThreshold ==
    [][\A block_hash \in finalizer'.finalized_blocks \ finalizer.finalized_blocks :
          LET call == calls'[Len(calls')]
              held == [finalizer EXCEPT !.pending_blocks =
                          DictSet(finalizer.pending_blocks, block_hash,
                                  (IF block_hash \in DOMAIN finalizer.pending_blocks
                                   THEN finalizer.pending_blocks[block_hash] ELSE {})
                                  \cup {BlockVote(call.validator, block_hash, now, "sig")})]
          IN  /\ Len(calls') = Len(calls) + 1
              /\ call.op = "submit_vote"
              /\ call.block_hash = block_hash
              /\ 100 * DistinctVotedStake(held, selector, block_hash)
                     >= finality_threshold_percent * selector.total_staked]_vars

\* some block hash is finalized
SomeBlockFinalized == finalizer.finalized_blocks # {}

\* C15: finality monotonicity: across any sequence of submit_vote and
\* process_validator_vote calls, latest_finalized_height of the
\* BlockFinalizer and last_finalized_height of the ConsensusManager never
\* decrease.
C15_FinalityMonotone ==
    [][/\ finalizer'.latest_finalized_height >= finalizer.latest_finalized_height
       /\ manager'.last_finalized_height >= manager.last_finalized_height]_vars

\* some finalized height has moved from its initial value
SomeHeightFinalized ==
    \/ finalizer.latest_finalized_height # 0
    \/ manager.last_finalized_height # 0

\* calls[i] is a check_double_signing call for validator at block_height
IsVoteCheck(i, validator, block_height) ==
    /\ calls[i].op = "check_double_signing"
    /\ calls[i].validator = validator
    /\ calls[i].block_height = block_height

\* C17: double-signing detection: the check_double_signing call that
\* carries the second vote of a staked validator at a height returns a
\* DOUBLE_SIGNING SlashingEvent when its hash differs from the first vote's,
\* also when the first vote was the validator's first call ever, and returns
\* no event when the hash is the same.
C17_DoubleSigningDetected ==
    \A i \in 1..Len(calls) : \A j \in (i + 1)..Len(calls) :
        (/\ IsVoteCheck(i, calls[i].validator, calls[i].block_height)
         /\ IsVoteCheck(j, calls[i].validator, calls[i].block_height)
         /\ \A k \in 1..(j - 1) :
                k # i => ~IsVoteCheck(k, calls[i].validator, calls[i].block_height)
         /\ calls[j].stake > 0)
        => IF calls[i].block_hash # calls[j].block_hash
           THEN /\ calls[j].value = "SlashingEvent"
                /\ slashing.slashing_history[calls[j].validator][1].reason
                       = DOUBLE_SIGNING
           ELSE calls[j].value = "None"

\* the events recorded for validator
HistoryOf(sl, validator) ==
    IF validator \in DOMAIN sl.slashing_history
    THEN sl.slashing_history[validator] ELSE <<>>

\* C18: slashing effect: a slashing with penalty p of a validator whose
\* stake is s leaves the registry with stake s - p for it when s - p >=
\* min_stake_amount and without the validator otherwise, whenever the stake
\* was deposited; a double-signing penalty is all of s, so the validator is
\* removed and total_staked drops by s.
C18_SlashingEffect ==
    [][\A validator \in Validators :
          Len(HistoryOf(slashing', validator)) = Len(HistoryOf(slashing, validator)) + 1
          => LET history == HistoryOf(slashing', validator)
                 event == history[Len(history)]
                 s == StakeOf(selector, validator)
                 p == event.penalty_amount
             IN  /\ IF s - p >= min_stake_amount
                    THEN StakeOf(selector', validator) = s - p
                    ELSE StakeIndex(selector'.stakes, validator) = 0
                 /\ event.reason = DOUBLE_SIGNING
                    => /\ p = s
                       /\ StakeIndex(selector'.stakes, validator) = 0
                       /\ selector'.total_staked = selector.total_staked - s]_vars

\* the step is a handle_reorg call
IsReorgStep ==
    /\ Len(calls') = Len(calls) + 1
    /\ calls'[Len(calls')].op = "handle_reorg"

\* the call this step makes
ReorgCall == calls'[Len(calls')]

\* head, metadata and every balance of the stored chain are what they were
LedgerUntouched ==
    /\ state'.head = state.head
    /\ state'.metadata = state.metadata
    /\ \A address \in DOMAIN state.balances \cup DOMAIN state'.balances :
           get_account_balance(state', address) = get_account_balance(state, address)

\* index of the common ancestor of the canonical chain and new_blocks
AncestorIndex(st, new_blocks) ==
    CanonicalFrom(st, st.head)[ForkDepth(st, new_blocks) + 1].index

\* C16: handle_reorg never reverts a canonical block whose height is <=
\* latest_finalized_height: a competing segment whose common ancestor lies
\* below the latest finalized block is rejected and the canonical chain is
\* unchanged.
C16_FinalizedNeverReverted ==
    [][IsReorgStep =>
          /\ \A i \in 1..Len(ReorgCall.reverted) :
                 ReorgCall.reverted[i].index > finalizer.latest_finalized_height
          /\ (/\ ReorgCall.fork_depth >= 0
              /\ AncestorIndex(state, ReorgCall.new_blocks)
                     < finalizer.latest_finalized_height)
             => /\ ReorgCall.value = "None"
                /\ state'.head = state.head
                /\ state'.blocks = state.blocks]_vars

\* a handle_reorg call has reverted a canonical block
C16_Witness ==
    \E i \in 1..Len(calls) :
        /\ calls[i].op = "handle_reorg"
        /\ calls[i].reverted # <<>>

\* C19: reorg bound: handle_reorg with a competing segment whose fork depth
\* (the number of canonical blocks above the common ancestor) exceeds
\* max_reorg_depth returns no result, and the chain head, the stored blocks,
\* the chain metadata and the ledger state are unchanged.
C19_ReorgBound ==
    [][(IsReorgStep /\ ReorgCall.fork_depth > max_reorg_depth)
          => /\ ReorgCall.value = "None"
             /\ state'.blocks = state.blocks
             /\ LedgerUntouched]_vars

\* handle_reorg was called with a fork deeper than max_reorg_depth and
\* returned no result
C19_Witness ==
    \E i \in 1..Len(calls) :
        /\ calls[i].op = "handle_reorg"
        /\ calls[i].fork_depth > max_reorg_depth
        /\ calls[i].value = "None"

\* C20: reorg all-or-nothing: if reverting or applying a block fails during
\* handle_reorg, handle_reorg returns no result and the chain head, the
\* chain metadata and every ledger balance equal their values before the
\* call.
C20_ReorgAllOrNothing ==
    [][(IsReorgStep /\ ReorgCall.failed)
          => /\ ReorgCall.value = "None"
             /\ LedgerUntouched]_vars

\* the indexes of the blocks fall strictly along the sequence
Descending(blocks) ==
    \A i \in 1..(Len(blocks) - 1) : blocks[i].index > blocks[i + 1].index

\* the indexes of the blocks rise strictly along the sequence
Ascending(blocks) ==
    \A i \in 1..(Len(blocks) - 1) : blocks[i].index < blocks[i + 1].index

\* C30: reorg ordering: handle_reorg reverts the canonical blocks above the
\* common ancestor newest first (the tip first, the block just above the
\* ancestor last), then applies the competing segment's blocks in increasing
\* height order, and on success the chain head is the last block of the
\* competing segment.
C30_ReorgOrdering ==
    [][IsReorgStep =>
          /\ Descending(ReorgCall.reverted)
          /\ Ascending(ReorgCall.applied)
          /\ ReorgCall.value = "ReorgResult"
             => state'.head = ReorgCall.new_blocks[Len(ReorgCall.new_blocks)].hash]_vars

\* the block's transactions are no longer the ones it was built with
Tampered ==
    FieldsOf(held_block[1].block.transactions) # FieldsOf(held_block[1].built)

\* the hash of the block that the content of a dictionary gives
RecomputedHash(data) ==
    LET transactions == [i \in 1..Len(data.transactions) |->
                            Transaction_from_dict(data.transactions[i])]
    IN  BlockObject(data.height, data.previous_hash, transactions,
                    data.timestamp, data.validator).hash

\* C21: tamper detection: once a field of a contained transaction or the
\* transaction list of a block was changed after the block was built,
\* verify_block returns False; Block.from_dict never returns a block for a
\* dictionary whose stored hash differs from the recomputed hash.
C21_TamperDetection ==
    [][/\ (Len(calls') = Len(calls) + 1 /\ calls'[Len(calls')].op = "verify_block"
           /\ Tampered)
          => calls'[Len(calls')].value = "False"
       /\ (Len(calls') = Len(calls) + 1 /\ calls'[Len(calls')].op = "from_dict"
           /\ RecomputedHash(calls'[Len(calls')].data) # calls'[Len(calls')].data.hash)
          => calls'[Len(calls')].value # "Block"]_vars

\* C23: the mempool never holds a transaction whose id is in a block of the
\* chain, whatever the interleaving of add_transaction_to_mempool and
\* add_block calls.
C23_NoConfirmedInMempool ==
    \A i \in 1..Len(mempool) : ~get_transaction_block(transaction_id(mempool[i]))

\* no two entries of a transaction list have the same transaction id
DistinctIds(transactions) ==
    \A i, j \in 1..Len(transactions) :
        transaction_id(transactions[i]) = transaction_id(transactions[j]) => i = j

\* C22: mempool bound: after any sequence of add, remove and expire
\* operations Blockchain.mempool holds at most MAX_MEMPOOL_SIZE transactions
\* and the Mempool at most max_size, and no two entries of either have the
\* same transaction id.
C22_MempoolBound ==
    /\ Len(mempool) <= MAX_MEMPOOL_SIZE
    /\ DistinctIds(mempool)
    /\ Len(tx_pool) <= Mempool_max_size
    /\ DistinctIds([i \in 1..Len(tx_pool) |-> tx_pool[i].transaction])

\* the mempool is full, after a block was produced from it and more
\* transactions came in
C22_Witness ==
    /\ Len(mempool) = MAX_MEMPOOL_SIZE
    /\ Len(chain) > 1

\* the fees do not rise along the sequence
FeeDescending(transactions) ==
    \A i \in 1..(Len(transactions) - 1) : fee(transactions[i]) >= fee(transactions[i + 1])

\* C24: block inclusion priority: the pending transactions of a newly
\* produced block are in fee-descending order and no pending transaction
\* left out of it has a higher fee than one that is in it;
\* get_transactions(limit) returns at most limit transactions sorted by
\* non-increasing fee.
C24_InclusionPriority ==
    [][/\ Len(chain') = Len(chain) + 1
          => LET included == Tail(chain'[Len(chain')].transactions)
             IN  /\ FeeDescending(included)
                 /\ \A i \in 1..Len(included), j \in 1..Len(mempool') :
                        fee(mempool'[j]) <= fee(included[i])
       /\ \A limit \in 0..MAX_MEMPOOL_SIZE :
              /\ Len(get_transactions(tx_pool', limit)) <= limit
              /\ FeeDescending(get_transactions(tx_pool', limit))]_vars

\* the step is a submit_vote call
IsSubmitVoteStep ==
    /\ Len(calls') = Len(calls) + 1
    /\ calls'[Len(calls')].op = "submit_vote"

\* C25: submit_vote returns False and leaves pending_blocks,
\* finalized_blocks and latest_finalized_height unchanged when the validator
\* is not an active validator or the block hash is already finalized.
C25_VoteRejected ==
    [][LET call == calls'[Len(calls')]
       IN  (/\ IsSubmitVoteStep
            /\ \/ ~is_active_validator(selector, call.validator)
               \/ call.block_hash \in finalizer.finalized_blocks)
           => /\ call.value = "False"
              /\ finalizer'.pending_blocks = finalizer.pending_blocks
              /\ finalizer'.finalized_blocks = finalizer.finalized_blocks
              /\ finalizer'.latest_finalized_height = finalizer.latest_finalized_height]_vars

\* a validator without an active stake has just been refused while a block
\* hash has a pending_blocks entry
C25_Witness ==
    /\ Len(calls) > 0
    /\ calls[Len(calls)].op = "submit_vote"
    /\ calls[Len(calls)].value = "False"
    /\ ~is_active_validator(selector, calls[Len(calls)].validator)
    /\ DOMAIN finalizer.pending_blocks # {}

\* the votes pending_blocks holds for block_hash by validator
VotesOf(f, validator, block_hash) ==
    IF block_hash \notin DOMAIN f.pending_blocks THEN {}
    ELSE {vote \in f.pending_blocks[block_hash] : vote.validator = validator}

\* an earlier submit_vote of the log was made by validator for block_hash
\* with an active stake
VotedBefore(validator, block_hash) ==
    \E i \in 1..Len(calls) :
        /\ calls[i].op = "submit_vote"
        /\ calls[i].validator = validator
        /\ calls[i].block_hash = block_hash
        /\ calls[i].stake >= min_stake_amount

\* C26: after any sequence of submit_vote calls pending_blocks holds at most
\* one vote per (validator, block hash): after a second vote of an active
\* validator for a hash that is not finalized, the one vote pending_blocks
\* holds for that validator and hash is the second one.
C26_OneVotePerValidator ==
    [][/\ \A validator \in Validators : \A block_hash \in VoteHashes :
              Cardinality(VotesOf(finalizer', validator, block_hash)) <= 1
       /\ LET call == calls'[Len(calls')]
          IN  (/\ IsSubmitVoteStep
               /\ VotedBefore(call.validator, call.block_hash)
               /\ is_active_validator(selector, call.validator)
               /\ call.block_hash \notin finalizer.finalized_blocks)
              => \/ call.block_hash \in finalizer'.finalized_blocks
                    \/ VotesOf(finalizer', call.validator, call.block_hash)
                           = {BlockVote(call.validator, call.block_hash, now, "sig")}]_vars

\* C27: finalized is terminal: a block hash in finalized_blocks stays there
\* after every later operation and never has a pending_blocks entry again.
C27_FinalizedTerminal ==
    [][/\ finalizer.finalized_blocks \subseteq finalizer'.finalized_blocks
       /\ finalizer'.finalized_blocks \cap DOMAIN finalizer'.pending_blocks = {}]_vars

\* the ids stored in the transactions of a list
IdsOf(transactions) ==
    [i \in 1..Len(transactions) |-> transactions[i].transaction_id]

\* the balance of address in a Blockchain object
ObjectBalance(b, address) ==
    IF address \notin DOMAIN b.utxo_set THEN 0
    ELSE SumAmounts(FieldsOf(b.utxo_set[address]))

\* C29: state round trip: importing the result of export_state into a fresh
\* Blockchain succeeds and yields the same chain (block hashes and
\* transaction ids), the same balance for every address, the same mempool
\* ids, the same validator_stakes and the same total_staked.
C29_StateRoundTrip ==
    imported # NoImport =>
        LET b == imported[1].blockchain
            source == imported[1].source
        IN  /\ imported[1].value = "None"
            /\ Len(b.chain) = Len(source.chain)
            /\ \A i \in 1..Len(source.chain) :
                   /\ i <= Len(b.chain)
                   /\ b.chain[i].hash = source.chain[i].hash
                   /\ IdsOf(b.chain[i].transactions) = IdsOf(source.chain[i].transactions)
            /\ \A address \in Addresses :
                   ObjectBalance(b, address) = ObjectBalance(source, address)
            /\ IdsOf(b.mempool) = IdsOf(source.mempool)
            /\ b.validator_stakes = source.validator_stakes
            /\ b.total_staked = source.total_staked

\* a task is between its first step and its return
InProgress(t) == t.pc \notin {"find", "done"}

AllDone ==
    /\ tasks.running # <<>>
    /\ \A i \in 1..Len(tasks.running) : tasks.running[i].pc = "done"

\* the state after the task first and then the task second, each run from
\* its start to its return
Serial(first, second) ==
    run_until_complete(create_task(second.new_blocks, second.current_tip),
        run_until_complete(create_task(first.new_blocks, first.current_tip),
                           tasks.base).state).state

\* the revert and apply steps of the two tasks do not interleave, and the
\* state they leave is that of one of the two serial orders
Serializable ==
    /\ ~(\E i, j \in 1..Len(tasks.running) :
            i # j /\ InProgress(tasks.running[i]) /\ InProgress(tasks.running[j]))
    /\ AllDone =>
           \/ state = Serial(tasks.running[1], tasks.running[2])
           \/ state = Serial(tasks.running[2], tasks.running[1])

\* the hashes of the last blocks of the submitted segments
SubmittedTips ==
    {tasks.running[i].new_blocks[Len(tasks.running[i].new_blocks)].hash :
        i \in 1..Len(tasks.running)}

InactiveDuration(stake, current_time) ==
    (IF current_time = None THEN now ELSE current_time) - stake.last_validation_time

\* floor(amount * min(duration / (10 * inactivity_threshold), 1/2))
ClaimedPenalty(amount, duration) ==
    IF duration >= 5 * inactivity_threshold THEN amount \div 2
    ELSE (amount * duration) \div (10 * inactivity_threshold)

SelectedWithinCooldown(validator) ==
    \E i \in 1..Len(calls) :
        /\ calls[i].op = "select_validator"
        /\ calls[i].value = validator
        /\ now - calls[i].time < SELECTION_COOLDOWN

\* C32: selection cooldown: a validator returned by select_validator at time
\* t is not returned by any select_validator call made before t + 300
\* seconds, also when its stake is updated or slashed in between; if every
\* staked validator is in cooldown the call returns None.
C32_SelectionCooldown ==
    [][(/\ Len(calls') = Len(calls) + 1
        /\ calls'[Len(calls')].op = "select_validator")
       => LET call == calls'[Len(calls')]
          IN  /\ call.value # NoAddress => ~SelectedWithinCooldown(call.value)
              /\ (/\ selector.stakes # <<>>
                  /\ \A k \in 1..Len(selector.stakes) :
                         SelectedWithinCooldown(selector.stakes[k].address))
                 => call.value = NoAddress]_vars

\* ------------------------------------------------------------------------
\* The stake registries: Blockchain.update_validator_stake called directly,
\* BlockchainState.update_stake, and ProofOfStake
\* ------------------------------------------------------------------------
RECURSIVE SumValues(_, _)
SumValues(f, keys) ==
    IF keys = {} THEN 0
    ELSE LET k == CHOOSE x \in keys : TRUE
         IN  f[k] + SumValues(f, keys \ {k})

\* dict.get(address, 0)
StakeIn(stakes, address) ==
    IF address \in DOMAIN stakes THEN stakes[address] ELSE 0

WithoutKey(f, key) == [a \in DOMAIN f \ {key} |-> f[a]]

WithKey(f, key, v) == [a \in DOMAIN f \cup {key} |-> IF a = key THEN v ELSE f[a]]

RemoveFromList(list, address) == SelectSeq(list, LAMBDA a : a # address)

InList(list, address) == \E i \in 1..Len(list) : list[i] = address

BlockchainState_update_stake(bs, validator, amount) ==
    IF validator \notin DOMAIN bs.validator_stakes
    THEN IF amount < MINIMUM_STAKE
         THEN [chain_state |-> bs, value |-> FALSE]
         ELSE LET stakes == WithKey(bs.validator_stakes, validator, amount)
              IN  [chain_state |-> [validator_stakes |-> stakes,
                                    total_staked |-> SumValues(stakes, DOMAIN stakes)],
                   value |-> TRUE]
    ELSE LET new_stake == bs.validator_stakes[validator] + amount
             stakes == IF new_stake < MINIMUM_STAKE
                       THEN WithoutKey(bs.validator_stakes, validator)
                       ELSE WithKey(bs.validator_stakes, validator, new_stake)
         IN  IF new_stake < 0
             THEN [chain_state |-> bs, value |-> FALSE]
             ELSE [chain_state |-> [validator_stakes |-> stakes,
                                    total_staked |-> SumValues(stakes, DOMAIN stakes)],
                   value |-> TRUE]

\* ProofOfStake.min_stake, Decimal('100')
ProofOfStake_min_stake == 100 * Coin

ProofOfStake_add_validator(p, address, stake) ==
    IF stake < ProofOfStake_min_stake \/ address \in DOMAIN p.validators
    THEN [pos |-> p, value |-> "False"]
    ELSE [pos |-> [validators |-> WithKey(p.validators, address, stake),
                   total_stake |-> p.total_stake + stake,
                   active_validators |-> Append(p.active_validators, address)],
          value |-> "True"]

\* list.remove raises ValueError when the address is not in active_validators;
\* stake and total are assigned before it
ProofOfStake_update_validator_stake(p, address, new_stake) ==
    IF address \notin DOMAIN p.validators THEN [pos |-> p, value |-> "False"]
    ELSE LET updated == [p EXCEPT
                 !.validators = WithKey(p.validators, address, new_stake),
                 !.total_stake = (p.total_stake - p.validators[address]) + new_stake]
         IN  IF new_stake < ProofOfStake_min_stake
             THEN IF InList(p.active_validators, address)
                  THEN [pos |-> [updated EXCEPT !.active_validators =
                                     RemoveFromList(p.active_validators, address)],
                        value |-> "True"]
                  ELSE [pos |-> updated, value |-> "ValueError"]
             ELSE IF ~InList(p.active_validators, address)
             THEN [pos |-> [updated EXCEPT !.active_validators =
                                Append(p.active_validators, address)],
                   value |-> "True"]
             ELSE [pos |-> updated, value |-> "True"]

ProofOfStake_remove_validator(p, address) ==
    IF address \notin DOMAIN p.validators THEN [pos |-> p, value |-> "False"]
    ELSE [pos |-> [validators |-> WithoutKey(p.validators, address),
                   total_stake |-> p.total_stake - p.validators[address],
                   active_validators |-> RemoveFromList(p.active_validators, address)],
          value |-> "True"]

\* the amounts callers pass: below the minimum, the minimum, above it
StakeDeltas == {40 * Coin, 100 * Coin, 160 * Coin}
SignedStakeDeltas == StakeDeltas \cup {0 - d : d \in StakeDeltas}

UpdateValidatorStake ==
    /\ Len(calls) < MaxCalls
    /\ \E address \in Validators : \E amount \in StakeDeltas :
       \E is_addition \in BOOLEAN :
           LET r == update_validator_stake(
                        [validator_stakes |-> validator_stakes,
                         total_staked |-> total_staked],
                        address, amount, is_addition)
           IN  /\ validator_stakes' = r.validator_stakes
               /\ total_staked' = r.total_staked
               /\ calls' = Append(calls,
                      Call("update_validator_stake", address, 0, <<>>, amount,
                           StakeIn(validator_stakes, address), PyBool(r.ok))
                      @@ [is_addition |-> is_addition])
    /\ UNCHANGED <<chain, mempool, utxo_set, current_block_reward, now,
                   reward_query, selector, finalizer, manager, slashing, state,
                   object_vars, pos, chain_state, db>>

UpdateStake ==
    /\ Len(calls) < MaxCalls
    /\ \E validator \in Validators : \E amount \in SignedStakeDeltas :
           LET r == BlockchainState_update_stake(chain_state, validator, amount)
           IN  /\ chain_state' = r.chain_state
               /\ calls' = Append(calls,
                      Call("update_stake", validator, 0, <<>>, amount,
                           StakeIn(chain_state.validator_stakes, validator),
                           PyBool(r.value)))
    /\ UNCHANGED <<selector, finalizer, manager, slashing, state,
                   blockchain_vars, object_vars, pos, db>>

AddValidator ==
    /\ Len(calls) < MaxCalls
    /\ \E address \in Validators : \E stake \in StakeDeltas :
           LET r == ProofOfStake_add_validator(pos, address, stake)
           IN  /\ pos' = r.pos
               /\ calls' = Append(calls,
                      Call("add_validator", address, 0, <<>>, stake,
                           StakeIn(pos.validators, address), r.value))
    /\ UNCHANGED <<selector, finalizer, manager, slashing, state,
                   blockchain_vars, object_vars, chain_state, db>>

PosUpdateValidatorStake ==
    /\ Len(calls) < MaxCalls
    /\ \E address \in Validators : \E new_stake \in StakeDeltas :
           LET r == ProofOfStake_update_validator_stake(pos, address, new_stake)
           IN  /\ pos' = r.pos
               /\ calls' = Append(calls,
                      Call("ProofOfStake.update_validator_stake", address, 0,
                           <<>>, new_stake, StakeIn(pos.validators, address),
                           r.value))
    /\ UNCHANGED <<selector, finalizer, manager, slashing, state,
                   blockchain_vars, object_vars, chain_state, db>>

RemoveValidator ==
    /\ Len(calls) < MaxCalls
    /\ \E address \in Validators :
           LET r == ProofOfStake_remove_validator(pos, address)
           IN  /\ pos' = r.pos
               /\ calls' = Append(calls,
                      Call("remove_validator", address, 0, <<>>, 0,
                           StakeIn(pos.validators, address), r.value))
    /\ UNCHANGED <<selector, finalizer, manager, slashing, state,
                   blockchain_vars, object_vars, chain_state, db>>

NextStake ==
    \/ UpdateValidatorStake
    \/ UpdateStake
    \/ AddValidator
    \/ PosUpdateValidatorStake
    \/ RemoveValidator

SpecStake == Init /\ [][NextStake]_vars

\* the step is a call of op
CallStep(op) ==
    /\ Len(calls') = Len(calls) + 1
    /\ calls'[Len(calls')].op = op

\* C33: update_validator_stake with is_addition = False and an amount greater
\* than the current stake returns False and leaves validator_stakes and
\* total_staked unchanged; after a successful update the address is
\* registered exactly when its new stake is at least MINIMUM_STAKE, so every
\* registered validator has a stake of at least MINIMUM_STAKE.  The same of
\* BlockchainState.update_stake with a negative amount, and of the active
\* validators of ProofOfStake.
C33_UpdateValidatorStake ==
    [][LET call == calls'[Len(calls')]
       IN  /\ CallStep("update_validator_stake") =>
                 LET new_stake == IF call.is_addition
                                  THEN call.stake + call.amount
                                  ELSE call.stake - call.amount
                 IN  /\ (~call.is_addition /\ call.amount > call.stake) =>
                            /\ call.value = "False"
                            /\ validator_stakes' = validator_stakes
                            /\ total_staked' = total_staked
                     /\ call.value = "True" =>
                            /\ call.validator \in DOMAIN validator_stakes'
                                   <=> new_stake >= MINIMUM_STAKE
                            /\ call.validator \in DOMAIN validator_stakes' =>
                                   validator_stakes'[call.validator] = new_stake
           /\ CallStep("update_stake") =>
                 LET new_stake == call.stake + call.amount
                 IN  /\ (call.amount < 0 /\ 0 - call.amount > call.stake) =>
                            /\ call.value = "False"
                            /\ chain_state' = chain_state
                     /\ call.value = "True" =>
                            /\ call.validator \in DOMAIN chain_state'.validator_stakes
                                   <=> new_stake >= MINIMUM_STAKE
                            /\ call.validator \in DOMAIN chain_state'.validator_stakes =>
                                   chain_state'.validator_stakes[call.validator] = new_stake
           /\ (CallStep("ProofOfStake.update_validator_stake") /\ call.value = "True") =>
                 (InList(pos'.active_validators, call.validator)
                      <=> call.amount >= ProofOfStake_min_stake)
           /\ \A a \in DOMAIN validator_stakes' :
                  validator_stakes'[a] >= MINIMUM_STAKE
           /\ \A a \in DOMAIN chain_state'.validator_stakes :
                  chain_state'.validator_stakes[a] >= MINIMUM_STAKE
           /\ \A i \in 1..Len(pos'.active_validators) :
                  pos'.validators[pos'.active_validators[i]] >= ProofOfStake_min_stake
      ]_vars

\* a decrease beyond the stake was refused, and a decrease that took a
\* registered validator below the minimum removed it
C33_Witness ==
    /\ \E i \in 1..Len(calls) :
           /\ calls[i].op = "update_validator_stake"
           /\ ~calls[i].is_addition
           /\ calls[i].stake >= MINIMUM_STAKE
           /\ calls[i].amount > calls[i].stake
           /\ calls[i].value = "False"
    /\ calls # <<>>
    /\ LET last == calls[Len(calls)]
       IN  /\ last.op = "update_validator_stake"
           /\ ~last.is_addition
           /\ last.stake >= MINIMUM_STAKE
           /\ last.value = "True"
           /\ last.validator \notin DOMAIN validator_stakes

\* ------------------------------------------------------------------------
\* Blocks of stake and unstake transactions
\* ------------------------------------------------------------------------
\* transactions signed at time t that stake and unstake for the staking wallet
StakeTransactionsAt(t) ==
    <<create_reward(STAKING, 50 * Coin, t),
      Transaction(STAKING, STAKING, 145 * Coin, STAKE, t,
                  TransactionData(STAKING, 145 * Coin, FALSE, None)),
      create_unstake(STAKING, 100 * Coin, STAKING, t),
      create_unstake(STAKING, 145 * Coin, STAKING, t)>>

\* the lists of at most n distinct entries of txs, in any order
RECURSIVE Arrangements(_, _)
Arrangements(txs, n) ==
    IF n = 0 THEN {<<>>}
    ELSE LET shorter == Arrangements(txs, n - 1)
         IN  shorter \cup
             {Append(s, txs[i]) : s \in shorter, i \in 1..Len(txs)}

NoRepeat(txs) ==
    \A i, j \in 1..Len(txs) : txs[i] = txs[j] => i = j

StakeBlocks ==
    IF Len(chain) >= MaxChain THEN {} ELSE
    {Block(Len(chain), chain[Len(chain)].hash, txs, now, STAKING) :
        txs \in {a \in Arrangements(StakeTransactionsAt(now), MaxBlockTxs) :
                    a # <<>> /\ NoRepeat(a)}}

AddStakeBlock == \E block \in StakeBlocks : Apply(add_block(block))

NextStakeBlocks == AddStakeBlock \/ Tick

SpecStakeBlocks == Init /\ [][NextStakeBlocks]_vars

\* the amounts of the transactions of the given type that sender has in txs
RECURSIVE AmountsOf(_, _, _)
AmountsOf(txs, sender, transaction_type) ==
    IF txs = <<>> THEN 0
    ELSE (IF Head(txs).sender = sender
             /\ Head(txs).transaction_type = transaction_type
          THEN Head(txs).amount ELSE 0)
         + AmountsOf(Tail(txs), sender, transaction_type)

\* update_validator_stake returned False for an Unstake transaction of txs
\* in the loop of _process_stake_transactions
RECURSIVE IgnoredUnstake(_, _)
IgnoredUnstake(st, txs) ==
    IF txs = <<>> THEN FALSE
    ELSE LET tx == Head(txs)
             r  == IF tx.transaction_type = STAKE
                   THEN update_validator_stake(st, tx.sender, tx.amount, TRUE)
                   ELSE IF tx.transaction_type = UNSTAKE
                   THEN update_validator_stake(st, tx.sender, tx.amount, FALSE)
                   ELSE [ok |-> TRUE, validator_stakes |-> st.validator_stakes,
                         total_staked |-> st.total_staked]
         IN  \/ tx.transaction_type = UNSTAKE /\ ~r.ok
             \/ IgnoredUnstake([validator_stakes |-> r.validator_stakes,
                                total_staked |-> r.total_staked], Tail(txs))

\* the step is add_block accepting a block above the genesis height
AcceptedBlockStep ==
    /\ Len(chain') = Len(chain) + 1
    /\ chain'[Len(chain')].height # 0

\* C35: stake side effects: after add_block accepts a block, the registered
\* stake of every address is its stake before the block plus the amounts of
\* its Stake transactions minus the amounts of its Unstake transactions in
\* the block, the address being dropped only when that result is below the
\* minimum; and no Unstake transaction of the accepted block is ignored by
\* the registry while its ledger effect is applied.
C35_StakeSideEffects ==
    [][AcceptedBlockStep =>
          LET txs == chain'[Len(chain')].transactions
          IN  /\ ~IgnoredUnstake([validator_stakes |-> validator_stakes,
                                  total_staked |-> total_staked], txs)
              /\ \A v \in DOMAIN validator_stakes
                       \cup {txs[i].sender : i \in 1..Len(txs)} :
                  LET result == StakeIn(validator_stakes, v)
                                + AmountsOf(txs, v, STAKE)
                                - AmountsOf(txs, v, UNSTAKE)
                  IN  IF result >= MINIMUM_STAKE
                      THEN /\ v \in DOMAIN validator_stakes'
                           /\ validator_stakes'[v] = result
                      ELSE v \notin DOMAIN validator_stakes']_vars

\* the positions of the chain: block index and transaction index
ChainPositions ==
    {p \in (1..Len(chain)) \X (1..(MaxBlockTxs + 2)) :
        p[2] <= Len(chain[p[1]].transactions)}

\* C36: no replay: no transaction id occurs at more than one position of the
\* chain: add_block rejects a block that contains a transaction already
\* confirmed, or the same transaction twice.
C36_NoReplay ==
    \A p, q \in ChainPositions :
        transaction_id(chain[p[1]].transactions[p[2]])
            = transaction_id(chain[q[1]].transactions[q[2]])
        => p = q

\* C37: no conflicting finality: no two distinct block hashes submitted with
\* the same block_height are both in finalized_blocks.
C37_NoConflictingFinality ==
    \A i, j \in 1..Len(calls) :
        (/\ calls[i].op = "submit_vote"
         /\ calls[j].op = "submit_vote"
         /\ calls[i].block_height = calls[j].block_height
         /\ calls[i].block_hash # calls[j].block_hash)
        => ~({calls[i].block_hash, calls[j].block_hash}
                 \subseteq finalizer.finalized_blocks)

RECURSIVE SumStakeAmounts(_)
SumStakeAmounts(stakes) ==
    IF stakes = <<>> THEN 0
    ELSE Head(stakes).amount + SumStakeAmounts(Tail(stakes))

BlockchainTotalConsistent ==
    total_staked = SumValues(validator_stakes, DOMAIN validator_stakes)

ProofOfStakeTotalConsistent ==
    pos.total_stake = SumValues(pos.validators, DOMAIN pos.validators)

ValidatorSelectorTotalConsistent ==
    selector.total_staked = SumStakeAmounts(selector.stakes)

\* C38: stake total consistency: after any sequence of stake operations the
\* stored total equals the sum of the registered stakes, in Blockchain, in
\* ProofOfStake and in ValidatorSelector.
C38_StakeTotals ==
    /\ BlockchainTotalConsistent
    /\ ProofOfStakeTotalConsistent
    /\ ValidatorSelectorTotalConsistent

\* ------------------------------------------------------------------------
\* CheckpointManager (src/storage/checkpoints.py) on the database of the
\* chain state
\* ------------------------------------------------------------------------
Checkpoint(height, hash, timestamp, metadata, is_verified) ==
    [height |-> height, hash |-> hash, timestamp |-> timestamp,
     metadata |-> metadata, is_verified |-> is_verified]

\* db.put(f"checkpoint:{height}", data), then db.put("checkpoint:latest", ...)
CheckpointManager_create_checkpoint(d, st, height, block_hash, metadata) ==
    LET checkpoint == Checkpoint(height, block_hash, now, metadata, FALSE)
    IN  [db |-> WithKey(d, height, checkpoint),
         state |-> [st EXCEPT !.checkpoint =
                       <<[height |-> height, hash |-> block_hash]>>],
         value |-> <<checkpoint>>]

\* the Checkpoint of the row, or nothing when there is no row
CheckpointManager_get_checkpoint(d, height) ==
    IF height \notin DOMAIN d THEN <<>> ELSE <<d[height]>>

\* latest["height"] raises KeyError, which the method does not catch, when
\* the row under checkpoint:latest has no such key
CheckpointManager_get_latest_checkpoint(d, st) ==
    IF st.checkpoint = <<>> THEN [value |-> <<>>, raised |-> FALSE]
    ELSE IF "height" \notin DOMAIN st.checkpoint[1]
    THEN [value |-> <<>>, raised |-> TRUE]
    ELSE [value |-> CheckpointManager_get_checkpoint(d, st.checkpoint[1].height),
          raised |-> FALSE]

\* checkpoints.sort(reverse=True)
RECURSIVE SortedDescending(_)
SortedDescending(heights) ==
    IF heights = {} THEN <<>>
    ELSE LET m == CHOOSE h \in heights : \A g \in heights : g <= h
         IN  <<m>> \o SortedDescending(heights \ {m})

SliceFrom_OffByOne(list, keep_count) ==
    IF keep_count + 1 >= Len(list) THEN <<>>
    ELSE SubSeq(list, keep_count + 2, Len(list))

\* list[keep_count:] for keep_count >= 0
SliceFrom(list, keep_count) ==
    IF keep_count >= Len(list) THEN <<>>
    ELSE SubSeq(list, keep_count + 1, Len(list))

RECURSIVE DeleteAll(_, _)
DeleteAll(d, heights) ==
    IF heights = <<>> THEN d
    ELSE DeleteAll(WithoutKey(d, Head(heights)), Tail(heights))

\* the scan skips checkpoint:latest and every key without the prefix
prune_old_checkpoints(d, keep_count) ==
    LET checkpoints == SortedDescending(DOMAIN d)
    IN  [db |-> DeleteAll(d, SliceFrom(checkpoints, keep_count)),
         value |-> TRUE]

CheckpointHeights == 1..3
CheckpointHashes == {"A1", "B1"}
KeepCounts == 0..2

CreateCheckpoint ==
    /\ Len(calls) < MaxCalls
    /\ \E height \in CheckpointHeights : \E block_hash \in CheckpointHashes :
           LET r == CheckpointManager_create_checkpoint(db, state, height,
                        block_hash, state.metadata)
           IN  /\ db' = r.db
               /\ state' = r.state
               /\ calls' = Append(calls,
                      Call("create_checkpoint", NoAddress, height, block_hash,
                           0, 0, "Checkpoint"))
    /\ UNCHANGED <<selector, finalizer, manager, slashing, blockchain_vars,
                   object_vars, pos, chain_state>>

PruneOldCheckpoints ==
    /\ Len(calls) < MaxCalls
    /\ \E keep_count \in KeepCounts :
           LET r == prune_old_checkpoints(db, keep_count)
           IN  /\ db' = r.db
               /\ calls' = Append(calls,
                      Call("prune_old_checkpoints", NoAddress, 0, <<>>,
                           keep_count, 0, PyBool(r.value)))
    /\ UNCHANGED <<selector, finalizer, manager, slashing, state,
                   blockchain_vars, object_vars, pos, chain_state>>

\* ChainReorganizer._create_checkpoint on the same database
ReorgCreateCheckpoint ==
    /\ Len(calls) < MaxCalls
    /\ state' = _create_checkpoint(state)
    /\ calls' = Append(calls,
           Call("_create_checkpoint", NoAddress, 0, <<>>, 0, 0, "dict"))
    /\ UNCHANGED <<selector, finalizer, manager, slashing, blockchain_vars,
                   object_vars, store_vars>>

NextCheckpoints == CreateCheckpoint \/ PruneOldCheckpoints \/ ReorgCreateCheckpoint

SpecCheckpoints == Init /\ [][NextCheckpoints]_vars

\* C34: checkpoint retention: after prune_old_checkpoints(keep_count = k) at
\* most k checkpoint:<height> records remain, they are the k greatest heights
\* that existed before, unchanged, and checkpoint:latest is not deleted.
C34_CheckpointRetention ==
    [][CallStep("prune_old_checkpoints") =>
          LET k == calls'[Len(calls')].amount
              before == DOMAIN db
              after == DOMAIN db'
          IN  /\ calls'[Len(calls')].value = "True"
              /\ Cardinality(after) <= k
              /\ after \subseteq before
              /\ Cardinality(before) >= k => Cardinality(after) = k
              /\ Cardinality(before) < k => after = before
              /\ \A h \in after : \A g \in before \ after : h > g
              /\ \A h \in after : db'[h] = db[h]
              /\ state'.checkpoint = state.checkpoint]_vars

\* a pruning that kept two of three checkpoints, with checkpoint:latest
\* still there
C34_Witness ==
    /\ calls # <<>>
    /\ calls[Len(calls)].op = "prune_old_checkpoints"
    /\ calls[Len(calls)].amount = 2
    /\ DOMAIN db = {2, 3}
    /\ \E i \in 1..Len(calls) :
           calls[i].op = "create_checkpoint" /\ calls[i].block_height = 1
    /\ state.checkpoint # <<>>

\* C40: latest-checkpoint pointer validity: whenever checkpoint:latest exists,
\* get_latest_checkpoint returns a stored checkpoint: the pointer has a
\* height and the record at that height exists.
C40_LatestPointerValid ==
    state.checkpoint # <<>> =>
        LET r == CheckpointManager_get_latest_checkpoint(db, state)
        IN  /\ ~r.raised
            /\ r.value # <<>>
            /\ r.value[1].height \in DOMAIN db
            /\ db[r.value[1].height] = r.value[1]

\* ------------------------------------------------------------------------
\* The production loop of a node that is the selected validator, running
\* for ever, with clients that submit transactions and no mempool expiry
\* ------------------------------------------------------------------------
\* a client submits a transaction while the chain has room for a block for
\* each pending transaction
SubmitTransaction ==
    /\ Len(chain) + Len(mempool) < MaxChain
    /\ AddToMempool

NextProduction == SubmitTransaction \/ ProduceBlock \/ Tick

\* an iteration of the loop would change the state: its block would be
\* accepted.  This is ENABLED <<ProduceBlock>>_vars, written as a state
\* predicate
CanProduce ==
    /\ Len(chain) < MaxChain
    /\ Len(mempool) > 0
    /\ LET current_height == Len(chain)
           validator == select_validator(current_height)
           reward_tx == create_reward(validator, 50 * Coin, now)
           transactions == production_transactions(reward_tx)
       IN  /\ validator # NoAddress
           /\ BlockConstructible(transactions)
           /\ LET r == add_block(Block(current_height, chain[Len(chain)].hash,
                                       transactions, now, validator))
              IN  <<r.chain, r.mempool, r.utxo_set, r.validator_stakes,
                    r.total_staked, r.current_block_reward>>
                  # <<chain, mempool, utxo_set, validator_stakes,
                       total_staked, current_block_reward>>

\* weak fairness of ProduceBlock, WF_vars(ProduceBlock) with its ENABLED
\* written out: the loop "while self.running" iterates every five seconds,
\* so an iteration that can change the state is not put off for ever
ProductionFairness == []<>~CanProduce \/ []<><<ProduceBlock>>_vars

\* the loop never stops and the clock advances
SpecProduction ==
    Init /\ [][NextProduction]_vars /\ WF_vars(Tick) /\ ProductionFairness

Pending(transaction) ==
    \E i \in 1..Len(mempool) :
        transaction_id(mempool[i]) = transaction_id(transaction)

\* C39: block production progress: when this node is the selected validator
\* and the production loop runs fairly, every transaction admitted to the
\* mempool is eventually included in an accepted block or removed from the
\* mempool; a pending transaction that became invalid does not make every
\* later produced block be rejected for ever.
C39_ProductionProgress ==
    \A transaction \in MempoolTransactions :
        Pending(transaction) ~>
            (\/ get_transaction_block(transaction_id(transaction))
             \/ ~Pending(transaction))

====
